---- MODULE Spec2Model ----
(***************************************************************************)
(* Contact extraction, storage and export of the Berkeley scrapers         *)
(* (main.py, web_scrapping.py).                                             *)
(*                                                                         *)
(* Representation.  A Python str is a sequence of one-character strings,   *)
(* so that join, split, strip, lower and comparison are computed as the    *)
(* code computes them.  Python None / SQL NULL is the value NULL.  Fixed    *)
(* literals of the code that no string operation touches (method, notes,   *)
(* university, department texts) are strings of one piece, and a URL is    *)
(* spelled in lexical pieces.  confidence (REAL) is kept in hundredths:    *)
(* 1.0 is 100.                                                             *)
(* sha256 and uuid5 are modelled as collision-free: the digest of s is s   *)
(* behind a tag.                                                           *)
(***************************************************************************)
EXTENDS Integers, Sequences, FiniteSets, TLC

VARIABLES
    contacts,   \* table contacts, in rowid order
    profiles,   \* table profiles, in rowid order
    raw_csv,    \* the RAW CSV file
    crm_csv,    \* the CRM CSV file
    call,       \* the storage call made last and how it ended
    pc,         \* where the running script is
    web,        \* what the web answers during the run
    profile_links,        \* main.py: the profile links found in the list page
    remaining,            \* main.py: the profile links the loop has yet to take
    visited,              \* main.py: profile pages fetched
    found_detail_emails,  \* main.py: addresses found in profile pages
    queue,                \* web_scrapping.py: (url, depth) pairs to visit
    seen,                 \* web_scrapping.py: URLs taken from the queue
    pages,                \* web_scrapping.py: pages processed
    robots_cache,         \* web_scrapping.py: robots.txt per site
    requested,            \* web_scrapping.py: the (url, depth) pairs requested
    seen_emails_global,   \* uc3m v4: the addresses seen, shared by all departments
    datos_finales,        \* uc3m v4: the tuples (department, name, address) of main
    datos_unicos,         \* uc3m v4: the tuples written to the CSV file
    resultados,           \* uc3m v4: the tuples of the crawl_personal call at hand
    idx,                  \* uc3m v4: departments taken by the loop of main
    visited_v4            \* uc3m v4: len(visited) of the crawl_personal call at hand

storage_vars == <<contacts, profiles, raw_csv, crm_csv>>
main_vars == <<profile_links, remaining, visited, found_detail_emails>>
crawl_vars == <<queue, seen, pages, robots_cache, requested>>
uc3m_vars == <<seen_emails_global, datos_finales, datos_unicos, resultados, idx, visited_v4>>
vars == <<contacts, profiles, raw_csv, crm_csv, call, pc, web, profile_links,
          remaining, visited, found_detail_emails, queue, seen, pages,
          robots_cache, requested, seen_emails_global, datos_finales, datos_unicos,
          resultados, idx, visited_v4>>

\* The v4 script has not run
NoV4Run ==
    /\ seen_emails_global = {}
    /\ datos_finales = << >>
    /\ datos_unicos = << >>
    /\ resultados = << >>
    /\ idx = 0
    /\ visited_v4 = 0

\* ------------------------------------------------------------------ bounds
MaxContacts == 3

\* ----------------------------------------------------------------- strings
NULL == <<"NULL">>
\* A CSV file: not yet written, or the rows written last
NoFile == [written |-> FALSE, rows |-> << >>]
File(rows) == [written |-> TRUE, rows |-> rows]
EMPTY == << >>

\* Characters of the model's alphabet in code point order.
CharOrder == <<" ", ".", "1", "2", "@", "A", "D", "J", "P", "a", "b", "d", "e",
              "j", "k", "l", "o", "p", "r", "u", "y", "|", "e_acute", "star", "sha256",
              "uuid5", "https://", "vcresearch.berkeley.edu", "/faculty-expertise",
              "/people/">>

Ord(c) == CHOOSE i \in 1..Len(CharOrder) : CharOrder[i] = c

IsSpace(c) == c = " "

Min2(a, b) == IF a <= b THEN a ELSE b

\* Python's str < str: by code point, a proper prefix first.
StrLess(a, b) ==
    \/ \E k \in 1..Min2(Len(a), Len(b)) :
          /\ \A j \in 1..(k - 1) : a[j] = b[j]
          /\ Ord(a[k]) < Ord(b[k])
    \/ /\ Len(a) < Len(b)
       /\ \A j \in 1..Len(a) : a[j] = b[j]

LowerChar(c) ==
    CASE c = "A" -> "a"
      [] c = "UC3M.ES" -> "uc3m.es"
      [] c = "D" -> "d"
      [] c = "J" -> "j"
      [] c = "P" -> "p"
      [] c = "L" -> "l"
      [] c = "O" -> "o"
      [] OTHER -> c

\* str.lower()
Lower(s) == [i \in 1..Len(s) |-> LowerChar(s[i])]

\* str.strip()
Strip(s) ==
    IF \A i \in 1..Len(s) : IsSpace(s[i]) THEN EMPTY
    ELSE LET lo == CHOOSE i \in 1..Len(s) :
                       /\ ~IsSpace(s[i])
                       /\ \A j \in 1..(i - 1) : IsSpace(s[j])
             hi == CHOOSE i \in 1..Len(s) :
                       /\ ~IsSpace(s[i])
                       /\ \A j \in (i + 1)..Len(s) : IsSpace(s[j])
         IN SubSeq(s, lo, hi)

\* Python's  x or ""
OrEmpty(x) == IF x = NULL THEN EMPTY ELSE x

\* Python truthiness of an optional str
Truthy(x) == x # NULL /\ x # EMPTY

BAR == <<"|">>

\* "|".join([a, b, c, d])
Join4(a, b, c, d) == a \o BAR \o b \o BAR \o c \o BAR \o d

Sha256(s) == <<"sha256">> \o s

Uuid5(s) == <<"uuid5">> \o s

\* ------------------------------------------------- names and generated email
RECURSIVE Words(_)
\* str.split(): the maximal runs of non-whitespace characters
Words(s) ==
    IF s = EMPTY THEN << >>
    ELSE IF IsSpace(s[1]) THEN Words(Tail(s))
    ELSE LET n == CHOOSE n \in 1..Len(s) :
                      /\ \A j \in 1..n : ~IsSpace(s[j])
                      /\ (n = Len(s) \/ IsSpace(s[n + 1]))
         IN <<SubSeq(s, 1, n)>> \o Words(SubSeq(s, n + 1, Len(s)))

\* len(txt.split())
WordCount(s) == Len(Words(s))

\* Mutant: the second token is taken for the last name
split_first_second(full_name) ==
    IF ~Truthy(full_name) \/ Len(Words(full_name)) < 2 THEN <<NULL, NULL>>
    ELSE <<Words(full_name)[1], Words(full_name)[2]>>

\* Mutant: no name is ever split
split_first_last_never(full_name) == <<NULL, NULL>>

split_first_last(full_name) ==
    IF ~Truthy(full_name) THEN <<NULL, NULL>>
    ELSE LET parts == Words(full_name)
         IN IF Len(parts) < 2 THEN <<NULL, NULL>>
            ELSE <<parts[1], parts[Len(parts)]>>

\* web_scrapping.py's variant has no guard for None or ""; "".split() is []
ws_split_first_last(full_name) ==
    LET parts == Words(full_name)
    IN IF Len(parts) < 2 THEN <<NULL, NULL>>
       ELSE <<parts[1], parts[Len(parts)]>>

\* unidecode of one character; a symbol such as U+2605 has no transliteration
UnidecodeChar(c) ==
    CASE c = "e_acute" -> <<"e">>
      [] c = "star" -> EMPTY
      [] OTHER -> <<c>>

RECURSIVE Unidecode(_)
Unidecode(s) ==
    IF s = EMPTY THEN EMPTY ELSE UnidecodeChar(s[1]) \o Unidecode(Tail(s))

IsLowerAlnum(c) ==
    c \in {"1", "2", "a", "b", "d", "e", "j", "k", "l", "o", "p", "r", "u", "y"}

RECURSIVE KeepLowerAlnum(_)
\* re.sub(r"[^a-z0-9]", "", l)
KeepLowerAlnum(s) ==
    IF s = EMPTY THEN EMPTY
    ELSE (IF IsLowerAlnum(s[1]) THEN <<s[1]>> ELSE EMPTY) \o KeepLowerAlnum(Tail(s))

AT_BERKELEY == <<"@", "b", "e", "r", "k", "e", "l", "e", "y", ".", "e", "d", "u">>

IndexError == <<"IndexError">>

\* Mutant: no address is generated
generate_email_none(first_name, last_name) == NULL

\* None when a name is missing; IndexError when unidecode leaves nothing of
\* the first name, so that f[0] does not exist.
generate_email(first_name, last_name) ==
    IF ~Truthy(first_name) \/ ~Truthy(last_name) THEN NULL
    ELSE LET f == Unidecode(Lower(Strip(first_name)))
             l == KeepLowerAlnum(Unidecode(Lower(Strip(last_name))))
         IN IF f = EMPTY THEN IndexError
            ELSE <<f[1]>> \o l \o AT_BERKELEY

\* ------------------------------------------------------------------ storage
\* The record main.py builds for an email found in a page (lines 416-426,
\* 477-487) and web_scrapping.py builds at lines 275-285.
FoundContact(source_url, e, method, notes) ==
    [source_url |-> source_url, full_name |-> NULL, first_name |-> NULL,
     last_name |-> NULL, email_found |-> e, email_generated |-> NULL,
     method |-> method, confidence |-> 100, notes |-> notes]

\* The record built for a name (main.py lines 433-443 and 520-530,
\* web_scrapping.py lines 292-302), once fn, ln and gen are computed.
NameContact(source_url, full, fn, ln, gen, method, confidence, notes) ==
    [source_url |-> source_url, full_name |-> full, first_name |-> fn,
     last_name |-> ln, email_found |-> NULL, email_generated |-> gen,
     method |-> method, confidence |-> confidence, notes |-> notes]

\* Mutant: the id is the hash of the source URL alone
contact_key_url_only(rec) == OrEmpty(rec.source_url)

\* main.py: every part of the key goes through  or ""
contact_key(rec) ==
    Join4(OrEmpty(rec.source_url), OrEmpty(rec.full_name),
          OrEmpty(rec.email_found), OrEmpty(rec.email_generated))

\* web_scrapping.py: rec.get("source_url", "") is used as it is
ws_contact_key(rec) ==
    Join4(rec.source_url, OrEmpty(rec.full_name),
          OrEmpty(rec.email_found), OrEmpty(rec.email_generated))

WithId(rec, rid) == [id |-> rid] @@ rec

HasId(table, rid) == \E i \in 1..Len(table) : table[i].id = rid

\* Mutant: ON CONFLICT(id) DO UPDATE, the stored row is overwritten
InsertOrReplace(table, row) ==
    IF HasId(table, row.id)
    THEN [i \in 1..Len(table) |-> IF table[i].id = row.id THEN row ELSE table[i]]
    ELSE Append(table, row)

\* INSERT INTO contacts ... ON CONFLICT(id) DO NOTHING
InsertOrIgnore(table, row) ==
    IF HasId(table, row.id) THEN table ELSE Append(table, row)

\* Mutant: the method tag is hashed into the id
upsert_contact_method_in_key(table, rec) ==
    InsertOrIgnore(table, WithId(rec, Sha256(contact_key(rec) \o rec.method)))

upsert_contact(table, rec) ==
    InsertOrIgnore(table, WithId(rec, Sha256(contact_key(rec))))

ws_upsert_contact(table, rec) ==
    InsertOrIgnore(table, WithId(rec, Sha256(ws_contact_key(rec))))

\* Mutant: SET x = excluded.x
CoalesceOverwrite(new, old) == new

\* COALESCE(excluded.x, profiles.x)
Coalesce(new, old) == IF new # NULL THEN new ELSE old

ProfileRow(source_url, full_name, first_name, last_name, university, department) ==
    [source_url |-> source_url, full_name |-> full_name,
     first_name |-> first_name, last_name |-> last_name,
     university |-> university, department |-> department]

\* Mutant: the fields are taken over together, when a full name is passed
MergeProfileTogether(old, new) == IF new.full_name # NULL THEN new ELSE old

MergeProfile(old, new) ==
    [source_url |-> old.source_url,
     full_name  |-> Coalesce(new.full_name, old.full_name),
     first_name |-> Coalesce(new.first_name, old.first_name),
     last_name  |-> Coalesce(new.last_name, old.last_name),
     university |-> Coalesce(new.university, old.university),
     department |-> Coalesce(new.department, old.department)]

\* INSERT INTO profiles ... ON CONFLICT(source_url) DO UPDATE SET ...
upsert_profile(table, row) ==
    IF \E i \in 1..Len(table) : table[i].source_url = row.source_url
    THEN [i \in 1..Len(table) |->
            IF table[i].source_url = row.source_url
            THEN MergeProfile(table[i], row) ELSE table[i]]
    ELSE Append(table, row)

\* ------------------------------------------------------------------- export
\* DataFrame.to_csv writes a missing value as the empty field
CsvField(x) == IF x = NULL THEN EMPTY ELSE x

CsvContactRow(r) ==
    [id |-> r.id, source_url |-> CsvField(r.source_url),
     full_name |-> CsvField(r.full_name), first_name |-> CsvField(r.first_name),
     last_name |-> CsvField(r.last_name), email_found |-> CsvField(r.email_found),
     email_generated |-> CsvField(r.email_generated), method |-> CsvField(r.method),
     confidence |-> r.confidence, notes |-> CsvField(r.notes)]

\* SELECT * FROM contacts, written row by row
export_raw_csv(c_table) == [i \in 1..Len(c_table) |-> CsvContactRow(c_table[i])]

\* What a left merge puts in the prof_ columns of a contact without profile
NaN == <<"NaN">>

IsNa(x) == x = NULL \/ x = NaN

\* Series.fillna(other)
Fillna(a, b) == IF IsNa(a) THEN b ELSE a

\* Python's  a or b ; NaN is a float other than 0 and so is true
PyOr(a, b) == IF a = NaN \/ Truthy(a) THEN a ELSE b

NaNProfile ==
    [source_url |-> NaN, full_name |-> NaN, first_name |-> NaN,
     last_name |-> NaN, university |-> NaN, department |-> NaN]

\* df_c.merge(df_p.add_prefix("prof_"), how="left", left_on="source_url", ...)
ProfileFor(p_table, source_url) ==
    IF \E i \in 1..Len(p_table) : p_table[i].source_url = source_url
    THEN p_table[CHOOSE i \in 1..Len(p_table) : p_table[i].source_url = source_url]
    ELSE NaNProfile

\* df_c["Email"] = df_c["email_found"].fillna(df_c["email_generated"])
PreferredEmail(c) == Fillna(c.email_found, c.email_generated)

\* make_id's key; AttributeError when the name it falls back on is NaN
MakeIdKey(c, p) ==
    LET key == Lower(Strip(OrEmpty(PreferredEmail(c))))
    IN IF key # EMPTY THEN key
       ELSE LET name == PyOr(PyOr(p.full_name, c.full_name), EMPTY)
            IN IF name = NaN THEN NaN
               ELSE Strip(name) \o BAR \o OrEmpty(c.source_url)

MakeIdRaises(c, p) == MakeIdKey(c, p) = NaN

UC_BERKELEY == <<"UC Berkeley">>

\* One row of the frame `out`, before sorting
CrmRow(c, p) ==
    LET f0   == Fillna(p.first_name, c.first_name)
        l0   == Fillna(p.last_name, c.last_name)
        full == Fillna(p.full_name, c.full_name)
        need == IsNa(f0) /\ IsNa(l0) /\ ~IsNa(full)
        f    == IF need THEN split_first_last(full)[1] ELSE f0
        l    == IF need THEN split_first_last(full)[2] ELSE l0
    IN [id |-> Uuid5(MakeIdKey(c, p)),
        Nombre |-> Fillna(f, EMPTY),
        Apellidos |-> Fillna(l, EMPTY),
        Email |-> Fillna(PreferredEmail(c), EMPTY),
        Universidad |-> Fillna(p.university, UC_BERKELEY),
        Departamento |-> Fillna(p.department, EMPTY),
        Desuscrito |-> <<"FALSE">>, Enviado |-> <<"FALSE">>,
        open_count |-> 0, click_count |-> 0]

\* out["__k"] = out["Email"].where(out["Email"].str.len() > 0, out["id"])
DedupKey(r) == IF Len(r.Email) > 0 THEN r.Email ELSE r.id

\* One step of the sort: r goes behind every row whose key is not greater
InsertByKey(sorted, r) ==
    LET n == Cardinality({i \in 1..Len(sorted) :
                             ~StrLess(DedupKey(r), DedupKey(sorted[i]))})
    IN SubSeq(sorted, 1, n) \o <<r>> \o SubSeq(sorted, n + 1, Len(sorted))

RECURSIVE SortByKey(_)
\* out.sort_values(["__k"]): numpy sorts fewer than 17 items by insertion,
\* which keeps rows of equal key in their order
SortByKey(rows) ==
    IF rows = << >> THEN << >>
    ELSE InsertByKey(SortByKey(SubSeq(rows, 1, Len(rows) - 1)), rows[Len(rows)])

\* Mutant: the drop_duplicates call is missing
DropNothing(rows) == rows

RECURSIVE DropDuplicates(_)
\* drop_duplicates("__k"): the first row of every key is kept
DropDuplicates(rows) ==
    IF rows = << >> THEN << >>
    ELSE LET rest == DropDuplicates(SubSeq(rows, 1, Len(rows) - 1))
             last == rows[Len(rows)]
         IN IF \E i \in 1..Len(rest) : DedupKey(rest[i]) = DedupKey(last)
            THEN rest ELSE Append(rest, last)

\* The joined frame, one row per contact, in the contacts' order
JoinedRows(c_table, p_table) ==
    [i \in 1..Len(c_table) |->
        CrmRow(c_table[i], ProfileFor(p_table, c_table[i].source_url))]

CrmRaises(c_table, p_table) ==
    \E i \in 1..Len(c_table) :
        MakeIdRaises(c_table[i], ProfileFor(p_table, c_table[i].source_url))

\* The rows export_crm_csv writes when make_id raises for no row
export_crm_csv(c_table, p_table) ==
    DropDuplicates(SortByKey(JoinedRows(c_table, p_table)))

\* ------------------------------------------------- the values of the model
\* A URL is spelled in lexical pieces (scheme, host, path segments) instead
\* of single characters.
HTTPS == "https://"
LIST_URL == <<HTTPS, "vcresearch.berkeley.edu", "/faculty-expertise">>
P1 == <<HTTPS, "vcresearch.berkeley.edu", "/people/", "1">>
P2 == <<HTTPS, "vcresearch.berkeley.edu", "/people/", "2">>
URLS == {P1, P2}

\* "Al Po" generates apo@berkeley.edu; "Po" is a single word
N_AL_PO == <<"A", "l", " ", "P", "o">>
N_PO == <<"P", "o">>
E_APO == <<"a", "p", "o">> \o AT_BERKELEY
E_JD == <<"j", "d">> \o AT_BERKELEY
PHYSICS == <<"Physics">>

\* method and notes of the found-email records of main.py
FoundTags ==
    {[method |-> <<"email_found_list">>, notes |-> <<"list page">>],
     [method |-> <<"email_found_profile">>, notes |-> <<"profile page">>]}

\* main.py line 432
CardGen(full) ==
    LET fl == split_first_last(full)
    IN IF Truthy(fl[1]) /\ Truthy(fl[2]) THEN generate_email(fl[1], fl[2]) ELSE NULL

\* main.py lines 430-443: the record of one card name
CardNameContact(source_url, full) ==
    LET fl  == split_first_last(full)
        gen == CardGen(full)
    IN NameContact(source_url, full, fl[1], fl[2], gen,
                   <<"card_name_generated">>,
                   IF Truthy(gen) THEN 50 ELSE 25, <<"name from list card">>)

\* The records upsert_contact is called with
ContactInputs ==
    {FoundContact(u, E_APO, t.method, t.notes) : u \in URLS, t \in FoundTags}
    \cup {CardNameContact(u, n) : u \in URLS, n \in {N_AL_PO, N_PO}}

\* The rows upsert_profile is called with: as main.py calls it, and with a
\* full name alone
ProfileInputs ==
    {ProfileRow(P1, n, split_first_last(n)[1], split_first_last(n)[2],
                UC_BERKELEY, d) :
        n \in {NULL, N_AL_PO}, d \in {NULL, PHYSICS}}
    \cup {ProfileRow(P1, N_AL_PO, NULL, NULL, NULL, NULL)}

\* ------------------------------------------------------- the run of main.py
\* A page is given by what the code's regular expression and selectors find
\* in it.  A list page: the matches of EMAIL_RE, the texts of the elements
\* the card selectors select, the hrefs of the anchors in cards.  A detail
\* page: the matches of EMAIL_RE, for each title selector that selects an
\* element the text of its first element, the text of the microdata name
\* element (NULL without one), and what extract_department returns.

\* set(m.group(1).lower() for m in EMAIL_RE.finditer(html or ""))
extract_emails_from_html(matches) == {Lower(matches[i]) : i \in 1..Len(matches)}

\* The names of extract_names_from_list_html: texts of 2 to 4 words
extract_names_from_list_html(texts) ==
    {texts[i] : i \in {j \in 1..Len(texts) :
                        2 <= WordCount(texts[j]) /\ WordCount(texts[j]) <= 4}}

\* The orders in which Python may iterate over a set
SeqsOf(S) ==
    {s \in [1..Cardinality(S) -> S] : \A i, j \in 1..Cardinality(S) : s[i] = s[j] => i = j}

RECURSIVE UpsertAll(_, _)
\* for rec in recs: upsert_contact(con, rec)
UpsertAll(table, recs) ==
    IF recs = << >> THEN table
    ELSE UpsertAll(upsert_contact(table, Head(recs)), Tail(recs))

\* generate_email raises for one of the names whose results are gens
Raises(gens) == \E i \in 1..Len(gens) : gens[i] = IndexError

\* The names handled before generate_email raises, all of them if it does not
BeforeRaise(no, gens) ==
    IF Raises(gens)
    THEN SubSeq(no, 1, (CHOOSE i \in 1..Len(gens) :
                          /\ gens[i] = IndexError
                          /\ \A j \in 1..(i - 1) : gens[j] # IndexError) - 1)
    ELSE no

\* main.py lines 415-426
ListFound(source_url, eo) ==
    [i \in 1..Len(eo) |->
        FoundContact(source_url, eo[i], <<"email_found_list">>, <<"list page">>)]

\* main.py lines 429-443
ListNamed(source_url, no) == [i \in 1..Len(no) |-> CardNameContact(source_url, no[i])]

\* main.py line 432 is outside any try: an IndexError ends the run
ListRaises(no) == Raises([i \in 1..Len(no) |-> CardGen(no[i])])

ListStoredNames(no) == BeforeRaise(no, [i \in 1..Len(no) |-> CardGen(no[i])])

\* main.py lines 414-443, the emails and the names taken in the orders eo, no
ListPageContacts(table, source_url, eo, no) ==
    UpsertAll(UpsertAll(table, ListFound(source_url, eo)),
              ListNamed(source_url, ListStoredNames(no)))

StartsWithHash(href) == href # EMPTY /\ href[1] = "#"

\* "berkeley.edu" in abs_url: a substring test on the whole URL
ContainsBerkeley(url) ==
    \E i \in 1..Len(url) : url[i] \in {"vcresearch.berkeley.edu", "/berkeley.edu"}

is_profile_like(url) ==
    \E i \in 1..Len(url) : url[i] \in {"/faculty/", "/people/", "/profile"}

\* main.py lines 446-455; the hrefs of the model are absolute, so that
\* urljoin returns them
ProfileLinks(hrefs) ==
    {h \in hrefs : /\ Truthy(h)
                   /\ ~StartsWithHash(h)
                   /\ ContainsBerkeley(h)
                   /\ is_profile_like(h)}

\* --max-profiles, by default
MaxProfiles == 1000

IsHtml(content_type) == \E i \in 1..Len(content_type) : content_type[i] = "text/html"

\* Mutant: the status code is not looked at
FetchSkippedWithoutStatus(resp) == resp.raises \/ ~IsHtml(resp.content_type)

\* main.py lines 464-470 and 532-533: the fetch raises (also on a timeout),
\* the status is not 200 or the content is not HTML: continue
FetchSkipped(resp) ==
    resp.raises \/ resp.status # 200 \/ ~IsHtml(resp.content_type)

\* main.py lines 493-503
DetailTitle(page) ==
    LET filled == {i \in 1..Len(page.heads) : page.heads[i] # EMPTY}
        title0 == IF filled # {}
                  THEN page.heads[CHOOSE i \in filled : \A j \in filled : i <= j]
                  ELSE IF page.heads = << >> THEN NULL ELSE EMPTY
    IN IF Truthy(title0) THEN title0
       ELSE IF page.person # NULL THEN page.person ELSE title0

\* main.py lines 474-530 for a page that was fetched: the tables afterwards.
\* An IndexError of generate_email is caught at line 532, after the emails
\* and the profile were stored.
ProfilePageStored(c_table, p_table, link, page, eo) ==
    LET found == [i \in 1..Len(eo) |->
                    FoundContact(link, eo[i], <<"email_found_profile">>,
                                 <<"profile page">>)]
        c1    == UpsertAll(c_table, found)
        title == DetailTitle(page)
        fl    == IF Truthy(title) THEN split_first_last(title) ELSE <<NULL, NULL>>
        dep   == IF Truthy(page.dep) THEN page.dep ELSE NULL
        p1    == upsert_profile(p_table,
                     ProfileRow(link, title, fl[1], fl[2], UC_BERKELEY, dep))
        gen   == generate_email(fl[1], fl[2])
    IN [contacts |->
           IF Truthy(fl[1]) /\ Truthy(fl[2]) /\ gen # IndexError
           THEN upsert_contact(c1,
                    NameContact(link, title, fl[1], fl[2], gen,
                                <<"profile_name_generated">>,
                                IF Truthy(gen) THEN 60 ELSE 30,
                                <<"name from profile">>))
           ELSE c1,
        profiles |-> p1]

\* One iteration of the profile loop, lines 463-533
ProfileVisited(c_table, p_table, link, resp, eo) ==
    IF FetchSkipped(resp) THEN [contacts |-> c_table, profiles |-> p_table]
    ELSE ProfilePageStored(c_table, p_table, link, resp.page, eo)

\* ----------------------------------------------- web_scrapping.py: crawl
BERKELEY_DOMAIN == "berkeley.edu"

\* tldextract: domain and suffix of a host
RegisteredDomain(host) ==
    CASE host = "vcresearch.berkeley.edu" -> "berkeley.edu"
      [] host = "example.org" -> "example.org"
      [] OTHER -> ""

\* urlparse(url).netloc; a URL without "//" has none
Netloc(url) == IF Len(url) >= 2 /\ url[1] = HTTPS THEN url[2] ELSE ""

same_registered_domain(url, target_domain) ==
    RegisteredDomain(Netloc(url)) = target_domain

\* EXCLUDE_URL_PATTERNS by piece: an extension at the end of the URL, a path
\* anywhere in it
should_skip_url(url) ==
    \/ ~same_registered_domain(url, BERKELEY_DOMAIN)
    \/ url # EMPTY /\ url[Len(url)] \in {".pdf", ".jpg", ".zip"}
    \/ \E i \in 1..Len(url) : url[i] \in {"/news", "/login", "/events"}

\* INCLUDE_URL_HINTS, by path piece
is_candidate_listing(url) ==
    \E i \in 1..Len(url) : url[i] \in {"/people/", "/faculty-expertise"}

\* f"{parsed.scheme}://{parsed.netloc}"
RobotsBase(url) == <<url[1], url[2]>>

\* allowed_by_robots: the cache afterwards.  robots is what reading the
\* site's robots.txt gives: whether the read returns and the URLs the file
\* disallows.  The cache keeps None for a read that raised.
RobotsCacheAfter(url, cache, robots) ==
    IF \E c \in cache : c.base = RobotsBase(url) THEN cache
    ELSE cache \cup {[base |-> RobotsBase(url), rp |-> robots]}

\* Mutant: return rp.can_fetch("*", url) if rp else True
allowed_by_robots_unless_read(url, cache, robots) ==
    robots.readable => url \notin robots.disallow

\* allowed_by_robots: its result
allowed_by_robots(url, cache, robots) ==
    LET after == RobotsCacheAfter(url, cache, robots)
        rp    == (CHOOSE c \in after : c.base = RobotsBase(url)).rp
    IN IF rp.readable THEN url \notin rp.disallow ELSE FALSE

\* web_scrapping.py lines 261-268: the request raises or the content is not
\* HTML: continue.  The status is not looked at.
CrawlFetchSkipped(resp) == resp.raises \/ ~IsHtml(resp.content_type)

\* re.sub(r'[,;|]+', ' ', c), before the whitespace is collapsed
PunctToSpace(s) ==
    [i \in 1..Len(s) |-> IF s[i] \in {",", ";", "|"} THEN " " ELSE s[i]]

RECURSIVE JoinWords(_)
JoinWords(words) ==
    IF words = << >> THEN EMPTY
    ELSE IF Len(words) = 1 THEN words[1]
    ELSE words[1] \o <<" ">> \o JoinWords(Tail(words))

\* re.sub(r'\s+', ' ', c).strip()
CollapseSpaces(s) == JoinWords(Words(s))

IsTitlePiece(c) == c \in {"Dr.", "Prof.", "Professor", "PhD", "MSc", "BSc", "MA", "MS"}

RECURSIVE RemoveTitles(_)
\* re.sub(r'\b(Dr\.?|Prof\.?|Professor|PhD|MSc|BSc|MA|MS)\b\.?', '', c)
RemoveTitles(s) ==
    IF s = EMPTY THEN EMPTY
    ELSE (IF IsTitlePiece(s[1]) THEN EMPTY ELSE <<s[1]>>) \o RemoveTitles(Tail(s))

\* Lines 164-167
CleanCandidate(c) == Strip(RemoveTitles(CollapseSpaces(PunctToSpace(c))))

\* extract_names_and_titles, from the candidates its heuristics collect
extract_names_and_titles(candidates) ==
    {c \in {CleanCandidate(x) : x \in candidates} :
        2 <= WordCount(c) /\ WordCount(c) <= 4}

RECURSIVE WsUpsertAll(_, _)
WsUpsertAll(table, recs) ==
    IF recs = << >> THEN table
    ELSE WsUpsertAll(ws_upsert_contact(table, Head(recs)), Tail(recs))

\* Lines 274-285
CrawlFound(url, eo) ==
    [i \in 1..Len(eo) |-> FoundContact(url, eo[i], <<"email_found">>, NULL)]

\* Line 291
CrawlGen(full) ==
    LET fl == ws_split_first_last(full)
    IN IF Truthy(fl[1]) /\ Truthy(fl[2]) THEN generate_email(fl[1], fl[2]) ELSE NULL

\* Lines 290-302
CrawlNameContact(url, full) ==
    LET fl  == ws_split_first_last(full)
        gen == CrawlGen(full)
    IN NameContact(url, full, fl[1], fl[2], gen,
                   IF Truthy(gen) THEN <<"name_generated">> ELSE <<"name_only">>,
                   IF Truthy(gen) THEN 40 ELSE 20,
                   <<"pattern:firstinitial+lastname">>)

CrawlNamed(url, no) == [i \in 1..Len(no) |-> CrawlNameContact(url, no[i])]

\* Line 291 is outside any try: an IndexError of generate_email ends the crawl
CrawlRaises(no) == Raises([i \in 1..Len(no) |-> CrawlGen(no[i])])

CrawlStoredNames(no) == BeforeRaise(no, [i \in 1..Len(no) |-> CrawlGen(no[i])])

\* Lines 272-302: the contacts of one fetched page
CrawlPageContacts(table, url, eo, no) ==
    WsUpsertAll(WsUpsertAll(table, CrawlFound(url, eo)),
                CrawlNamed(url, CrawlStoredNames(no)))

\* Lines 305-312: the queue entries of the links of a page
LinksToEnqueue(links, depth) ==
    LET keep == SelectSeq(links, LAMBDA l : ~should_skip_url(l) /\ is_candidate_listing(l))
    IN [i \in 1..Len(keep) |-> <<keep[i], depth + 1>>]

\* Lines 243-246
NormalizeSeed(s) == IF s # EMPTY /\ s[1] = HTTPS THEN s ELSE <<HTTPS>> \o s

\* ---------------------------------------------------- the pages of the model
N_JO_DOE == <<"J", "o", " ", "D", "o", "e">>
N_STAR_PO == <<"star", " ", "P", "o">>
RAW_APO == <<"A", "p", "o">> \o AT_BERKELEY
RAW_JD == <<"J", "D">> \o AT_BERKELEY

NEWS_URL == <<HTTPS, "vcresearch.berkeley.edu", "/news">>
EXTERNAL_URL == <<HTTPS, "example.org", "/people/", "1">>
HASH_HREF == <<"#", "top">>

TEXT_HTML == <<"text/html", "; charset=utf-8">>
APPLICATION_PDF == <<"application/pdf">>

\* Four list pages: one with an address written twice, a card title
\* selected by two selectors and a title of one word, one with a card only,
\* and two with a card title that begins with a symbol
ListPages ==
    {[emails |-> <<RAW_JD, E_JD>>, cards |-> <<N_AL_PO, N_AL_PO, N_PO>>,
      hrefs |-> {P1, P2, NEWS_URL, EXTERNAL_URL, HASH_HREF}],
     [emails |-> << >>, cards |-> <<N_JO_DOE>>,
      hrefs |-> {P1, P2, HASH_HREF}],
     [emails |-> <<RAW_APO>>, cards |-> <<N_STAR_PO, N_JO_DOE>>,
      hrefs |-> {P1}],
     [emails |-> << >>, cards |-> <<N_STAR_PO, N_AL_PO, N_AL_PO>>,
      hrefs |-> {P2}]}

PAGE_AL == [emails |-> <<RAW_APO>>, heads |-> <<N_AL_PO>>, person |-> NULL,
            dep |-> PHYSICS]
PAGE_JO == [emails |-> <<E_APO, E_JD>>, heads |-> <<EMPTY, N_JO_DOE>>, person |-> NULL,
            dep |-> EMPTY]
PAGE_PO == [emails |-> << >>, heads |-> <<N_PO>>, person |-> NULL, dep |-> PHYSICS]
PAGE_MICRODATA == [emails |-> <<E_JD>>, heads |-> <<EMPTY>>, person |-> N_AL_PO,
                   dep |-> EMPTY]
PAGE_BARE == [emails |-> << >>, heads |-> << >>, person |-> NULL, dep |-> EMPTY]
PAGE_STAR == [emails |-> <<E_JD>>, heads |-> <<N_STAR_PO>>, person |-> NULL,
              dep |-> PHYSICS]

Ok(page) == [raises |-> FALSE, status |-> 200, content_type |-> TEXT_HTML, page |-> page]

\* What requests.get does for a profile link
Responses ==
    {Ok(PAGE_AL), Ok(PAGE_JO), Ok(PAGE_PO), Ok(PAGE_MICRODATA), Ok(PAGE_BARE),
     Ok(PAGE_STAR),
     [raises |-> TRUE, status |-> 200, content_type |-> TEXT_HTML, page |-> PAGE_AL],
     [raises |-> FALSE, status |-> 404, content_type |-> TEXT_HTML, page |-> PAGE_AL],
     [raises |-> FALSE, status |-> 200, content_type |-> APPLICATION_PDF, page |-> PAGE_AL]}

\* A run of main.py: its --url, the list page rendered there and the response
\* to each profile link
MainWebs ==
    {[url |-> u, list |-> lp, resp |-> r] :
        u \in {LIST_URL, EXTERNAL_URL}, lp \in ListPages, r \in [{P1, P2} -> Responses]}

\* --max-pages and --max-depth of the crawls of the model
MaxPages == 2
MaxDepth == 1

DR_AL_PO == <<"Dr.", " ">> \o N_AL_PO \o <<",", " ", "PhD">>
CV_URL == P1 \o <<"/cv", ".pdf">>

\* The pages of the crawled site
CrawlPage(url) ==
    CASE url = LIST_URL ->
           [emails |-> <<RAW_JD, E_JD>>, candidates |-> {DR_AL_PO, N_AL_PO},
            links |-> <<P1, NEWS_URL, EXTERNAL_URL, CV_URL, P2, P1>>]
      [] url = P1 ->
           [emails |-> <<RAW_APO>>, candidates |-> {N_AL_PO},
            links |-> <<LIST_URL, P2>>]
      [] OTHER ->
           [emails |-> << >>, candidates |-> {N_JO_DOE, N_PO, N_STAR_PO},
            links |-> << >>]

\* How the site answers a request for a page
CrawlResponses(url) ==
    {[raises |-> FALSE, status |-> 200, content_type |-> TEXT_HTML, page |-> CrawlPage(url)],
     [raises |-> TRUE, status |-> 200, content_type |-> TEXT_HTML, page |-> CrawlPage(url)],
     [raises |-> FALSE, status |-> 404, content_type |-> TEXT_HTML, page |-> CrawlPage(url)],
     [raises |-> FALSE, status |-> 200, content_type |-> APPLICATION_PDF, page |-> CrawlPage(url)]}

CrawlUrls == {LIST_URL, P1, P2}

\* robots.txt of the site: unreadable, or the URLs it disallows
RobotsFiles ==
    {[readable |-> FALSE, disallow |-> {}],
     [readable |-> TRUE, disallow |-> {}],
     [readable |-> TRUE, disallow |-> {P2}]}

SeedLists ==
    {<<LIST_URL>>, <<<<"vcresearch.berkeley.edu", "/people/", "1">>, EXTERNAL_URL>>,
     <<NEWS_URL, LIST_URL>>}

CrawlWebs ==
    {[seeds |-> s, resp |-> r, robots |-> rb] :
        s \in SeedLists,
        r \in {f \in [CrawlUrls -> UNION {CrawlResponses(u) : u \in CrawlUrls}] :
                  \A u \in CrawlUrls : f[u] \in CrawlResponses(u)},
        rb \in RobotsFiles}

\* ------------------------------------------------------------ storage calls
\* Records and profiles are upserted in any order; as in both scripts, the
\* exports of a run follow its upserts.
Returned == <<"returned">>
AttributeError == <<"AttributeError">>

NoCall == [op |-> <<"none">>, arg |-> NULL, outcome |-> Returned]

StorageEmpty ==
    /\ contacts = << >>
    /\ profiles = << >>
    /\ raw_csv = NoFile
    /\ crm_csv = NoFile
    /\ call = NoCall

Init ==
    /\ StorageEmpty
    /\ pc = "calls"
    /\ web = NULL
    /\ profile_links = {}
    /\ remaining = {}
    /\ visited = 0
    /\ found_detail_emails = 0
    /\ queue = << >>
    /\ seen = {}
    /\ pages = 0
    /\ robots_cache = {}
    /\ requested = << >>
    /\ NoV4Run

NothingExported == ~raw_csv.written /\ ~crm_csv.written

UpsertContact(rec) ==
    /\ NothingExported
    /\ Len(contacts) < MaxContacts
    /\ contacts' = upsert_contact(contacts, rec)
    /\ call' = [op |-> <<"upsert_contact">>, arg |-> rec, outcome |-> Returned]
    /\ UNCHANGED <<profiles, raw_csv, crm_csv>>

UpsertProfile(row) ==
    /\ NothingExported
    /\ profiles' = upsert_profile(profiles, row)
    /\ call' = [op |-> <<"upsert_profile">>, arg |-> row, outcome |-> Returned]
    /\ UNCHANGED <<contacts, raw_csv, crm_csv>>

ExportRawCsv ==
    /\ raw_csv' = File(export_raw_csv(contacts))
    /\ call' = [op |-> <<"export_raw_csv">>, arg |-> NULL, outcome |-> Returned]
    /\ UNCHANGED <<contacts, profiles, crm_csv>>

\* Mutant: the export prunes the contacts it has merged away
ExportCrmCsvPruning ==
    /\ ~CrmRaises(contacts, profiles)
    /\ crm_csv' = File(export_crm_csv(contacts, profiles))
    /\ contacts' = [i \in 1..Min2(Len(contacts), Len(crm_csv'.rows)) |-> contacts[i]]
    /\ call' = [op |-> <<"export_crm_csv">>, arg |-> NULL, outcome |-> Returned]
    /\ UNCHANGED <<profiles, raw_csv>>

\* The file is written by the last statement: nothing is written when
\* make_id raises.
ExportCrmCsv ==
    /\ IF CrmRaises(contacts, profiles)
       THEN /\ crm_csv' = crm_csv
            /\ call' = [op |-> <<"export_crm_csv">>, arg |-> NULL,
                        outcome |-> AttributeError]
       ELSE /\ crm_csv' = File(export_crm_csv(contacts, profiles))
            /\ call' = [op |-> <<"export_crm_csv">>, arg |-> NULL,
                        outcome |-> Returned]
    /\ UNCHANGED <<contacts, profiles, raw_csv>>

\* No script is running
Calls == pc = "calls" /\ UNCHANGED <<pc, web, uc3m_vars, main_vars, crawl_vars>>

Next ==
    \/ \E rec \in ContactInputs : Calls /\ UpsertContact(rec)
    \/ \E row \in ProfileInputs : Calls /\ UpsertProfile(row)
    \/ Calls /\ ExportRawCsv
    \/ Calls /\ ExportCrmCsv

Spec == Init /\ [][Next]_vars

\* ------------------------------------------------ upsert_profile on its own
\* Calls of upsert_profile with every field given or left out on its own
ProfileCalls ==
    {ProfileRow(u, n, f, l, UC_BERKELEY, d) :
        u \in URLS, n \in {NULL, N_AL_PO, N_PO}, f \in {NULL, <<"A", "l">>},
        l \in {NULL, <<"P", "o">>}, d \in {NULL, PHYSICS}}

ProfilesNext == \E row \in ProfileCalls : Calls /\ UpsertProfile(row)

SpecProfiles == Init /\ [][ProfilesNext]_vars

\* --------------------------------------------------------- main.py, stepwise
MainInit ==
    /\ StorageEmpty
    /\ pc = "start"
    /\ web \in MainWebs
    /\ profile_links = {}
    /\ remaining = {}
    /\ visited = 0
    /\ found_detail_emails = 0
    /\ queue = << >>
    /\ seen = {}
    /\ pages = 0
    /\ robots_cache = {}
    /\ requested = << >>
    /\ NoV4Run

\* Lines 391-412: SystemExit for a --url outside berkeley.edu; otherwise the
\* database is opened and the list page rendered
MainStart ==
    /\ pc = "start"
    /\ pc' = IF same_registered_domain(web.url, BERKELEY_DOMAIN) THEN "list" ELSE "aborted"
    /\ UNCHANGED <<storage_vars, call, web, uc3m_vars, main_vars, crawl_vars>>

\* Lines 414-457: the contacts of the list page and its profile links
MainListPage ==
    /\ pc = "list"
    /\ \E eo \in SeqsOf(extract_emails_from_html(web.list.emails)) :
       \E no \in SeqsOf(extract_names_from_list_html(web.list.cards)) :
          /\ contacts' = ListPageContacts(contacts, LIST_URL, eo, no)
          /\ IF ListRaises(no)
             THEN /\ pc' = "failed"
                  /\ UNCHANGED <<profile_links, remaining>>
             ELSE /\ pc' = "profiles"
                  /\ profile_links' = ProfileLinks(web.list.hrefs)
                  /\ remaining' = profile_links'
    /\ UNCHANGED <<profiles, raw_csv, crm_csv, call, web, uc3m_vars, visited, found_detail_emails,
                   crawl_vars>>

Taken == Cardinality(profile_links) - Cardinality(remaining)

\* Lines 463-533: the loop takes the next link of list(profile_links)
MainProfile(link) ==
    /\ pc = "profiles"
    /\ link \in remaining
    /\ Taken < MaxProfiles
    /\ remaining' = remaining \ {link}
    /\ \E eo \in SeqsOf(extract_emails_from_html(web.resp[link].page.emails)) :
          LET after == ProfileVisited(contacts, profiles, link, web.resp[link], eo)
          IN /\ contacts' = after.contacts
             /\ profiles' = after.profiles
    /\ IF FetchSkipped(web.resp[link])
       THEN UNCHANGED <<visited, found_detail_emails>>
       ELSE /\ visited' = visited + 1
            /\ found_detail_emails' = found_detail_emails +
                  Cardinality(extract_emails_from_html(web.resp[link].page.emails))
    /\ UNCHANGED <<raw_csv, crm_csv, call, pc, web, uc3m_vars, profile_links, crawl_vars>>

\* The loop is over
MainLoopEnd ==
    /\ pc = "profiles"
    /\ (remaining = {} \/ Taken >= MaxProfiles)
    /\ pc' = "export_raw"
    /\ UNCHANGED <<storage_vars, call, web, uc3m_vars, main_vars, crawl_vars>>

\* Line 538
MainExportRaw ==
    /\ pc = "export_raw"
    /\ ExportRawCsv
    /\ pc' = "export_crm"
    /\ UNCHANGED <<web, uc3m_vars, main_vars, crawl_vars>>

\* Lines 539-546; an exception of export_crm_csv ends the run
MainExportCrm ==
    /\ pc = "export_crm"
    /\ ExportCrmCsv
    /\ pc' = IF call'.outcome = Returned THEN "done" ELSE "failed"
    /\ UNCHANGED <<web, uc3m_vars, main_vars, crawl_vars>>

MainNext ==
    \/ MainStart
    \/ MainListPage
    \/ \E link \in remaining : MainProfile(link)
    \/ MainLoopEnd
    \/ MainExportRaw
    \/ MainExportCrm

SpecMain == MainInit /\ [][MainNext]_vars

\* ------------------------------ main.py: profile pages visited run after run
\* A profile page whose headings are all empty
PAGE_UNTITLED == [emails |-> << >>, heads |-> <<EMPTY>>, person |-> NULL, dep |-> EMPTY]

VisitPages == {PAGE_AL, PAGE_JO, PAGE_PO, PAGE_MICRODATA, PAGE_BARE, PAGE_UNTITLED}

\* Lines 463-533 in any run on the database: a profile link is fetched and
\* its page stored
ProfileVisit(link, page) ==
    /\ Calls
    /\ \E eo \in SeqsOf(extract_emails_from_html(page.emails)) :
          LET after == ProfileVisited(contacts, profiles, link, Ok(page), eo)
          IN /\ contacts' = after.contacts
             /\ profiles' = after.profiles
    /\ UNCHANGED <<raw_csv, crm_csv, call>>

VisitsNext == \E link \in URLS, page \in VisitPages : ProfileVisit(link, page)

SpecVisits == Init /\ [][VisitsNext]_vars

\* ------------------------------------------------- crawl, one step at a time
CrawlInit ==
    /\ StorageEmpty
    /\ pc = "crawl_start"
    /\ web \in CrawlWebs
    /\ profile_links = {}
    /\ remaining = {}
    /\ visited = 0
    /\ found_detail_emails = 0
    /\ queue = << >>
    /\ seen = {}
    /\ pages = 0
    /\ robots_cache = {}
    /\ requested = << >>
    /\ NoV4Run

\* Lines 238-249
CrawlStart ==
    /\ pc = "crawl_start"
    /\ queue' = [i \in 1..Len(web.seeds) |-> <<NormalizeSeed(web.seeds[i]), 0>>]
    /\ pc' = "crawl"
    /\ UNCHANGED <<storage_vars, call, web, uc3m_vars, main_vars, seen, pages, robots_cache, requested>>

\* Lines 252-254: a URL seen before, or too deep
CrawlDrop ==
    /\ pc = "crawl"
    /\ queue # << >> /\ pages < MaxPages
    /\ (Head(queue)[1] \in seen \/ Head(queue)[2] > MaxDepth)
    /\ queue' = Tail(queue)
    /\ UNCHANGED <<storage_vars, call, pc, web, uc3m_vars, main_vars, seen, pages, robots_cache, requested>>

\* Lines 255-257: out of scope
CrawlSkip ==
    /\ pc = "crawl"
    /\ queue # << >> /\ pages < MaxPages
    /\ ~(Head(queue)[1] \in seen \/ Head(queue)[2] > MaxDepth)
    /\ (should_skip_url(Head(queue)[1])
           \/ ~same_registered_domain(Head(queue)[1], BERKELEY_DOMAIN))
    /\ queue' = Tail(queue)
    /\ seen' = seen \cup {Head(queue)[1]}
    /\ UNCHANGED <<storage_vars, call, pc, web, uc3m_vars, main_vars, pages, robots_cache, requested>>

\* Mutant: a URL seen before is not passed over
InScopeSeenOrNot(url, depth) ==
    /\ depth <= MaxDepth
    /\ ~(should_skip_url(url) \/ ~same_registered_domain(url, BERKELEY_DOMAIN))

InScope(url, depth) ==
    /\ ~(url \in seen \/ depth > MaxDepth)
    /\ ~(should_skip_url(url) \/ ~same_registered_domain(url, BERKELEY_DOMAIN))

\* Lines 258-259: robots.txt forbids the URL or could not be read
CrawlRobotsDenied ==
    /\ pc = "crawl"
    /\ queue # << >> /\ pages < MaxPages
    /\ InScope(Head(queue)[1], Head(queue)[2])
    /\ ~allowed_by_robots(Head(queue)[1], robots_cache, web.robots)
    /\ queue' = Tail(queue)
    /\ seen' = seen \cup {Head(queue)[1]}
    /\ robots_cache' = RobotsCacheAfter(Head(queue)[1], robots_cache, web.robots)
    /\ UNCHANGED <<storage_vars, call, pc, web, uc3m_vars, main_vars, pages, requested>>

Fetching(url, depth) ==
    /\ pc = "crawl"
    /\ queue # << >> /\ pages < MaxPages
    /\ url = Head(queue)[1] /\ depth = Head(queue)[2]
    /\ InScope(url, depth)
    /\ allowed_by_robots(url, robots_cache, web.robots)

\* Lines 261-268: the request fails
CrawlFetchFailed ==
    \E url \in CrawlUrls, depth \in 0..MaxDepth :
       /\ Fetching(url, depth)
       /\ CrawlFetchSkipped(web.resp[url])
       /\ queue' = Tail(queue)
       /\ seen' = seen \cup {url}
       /\ robots_cache' = RobotsCacheAfter(url, robots_cache, web.robots)
       /\ requested' = Append(requested, <<url, depth>>)
       /\ UNCHANGED <<storage_vars, call, pc, web, uc3m_vars, main_vars, pages>>

\* Lines 270-312: the page is processed
CrawlPageProcessed ==
    \E url \in CrawlUrls, depth \in 0..MaxDepth :
       /\ Fetching(url, depth)
       /\ ~CrawlFetchSkipped(web.resp[url])
       /\ pages' = pages + 1
       /\ \E eo \in SeqsOf(extract_emails_from_html(web.resp[url].page.emails)) :
          \E no \in SeqsOf(extract_names_and_titles(web.resp[url].page.candidates)) :
             /\ contacts' = CrawlPageContacts(contacts, url, eo, no)
             /\ IF CrawlRaises(no)
                THEN /\ pc' = "crawl_failed"
                     /\ queue' = Tail(queue)
                ELSE /\ pc' = pc
                     /\ queue' = IF depth < MaxDepth
                                 THEN Tail(queue) \o
                                      LinksToEnqueue(web.resp[url].page.links, depth)
                                 ELSE Tail(queue)
       /\ seen' = seen \cup {url}
       /\ robots_cache' = RobotsCacheAfter(url, robots_cache, web.robots)
       /\ requested' = Append(requested, <<url, depth>>)
       /\ UNCHANGED <<profiles, raw_csv, crm_csv, call, web, uc3m_vars, main_vars>>

\* Lines 317-320: the loop is left, the CSV written, the database closed
CrawlExport ==
    /\ pc = "crawl"
    /\ (queue = << >> \/ pages >= MaxPages)
    /\ ExportRawCsv
    /\ pc' = "crawl_done"
    /\ UNCHANGED <<web, uc3m_vars, main_vars, queue, seen, pages, robots_cache, requested>>

CrawlNext ==
    \/ CrawlStart
    \/ CrawlDrop
    \/ CrawlSkip
    \/ CrawlRobotsDenied
    \/ CrawlFetchFailed
    \/ CrawlPageProcessed
    \/ CrawlExport

SpecCrawl == CrawlInit /\ [][CrawlNext]_vars

\* Either script, run against an empty database
ScriptsInit == MainInit \/ CrawlInit

ScriptsNext == MainNext \/ CrawlNext

SpecScripts == ScriptsInit /\ [][ScriptsNext]_vars

\* ------------------------------------------- uc3m/scrape_uc3m_emails_v3, v4
\* A text is given by the matches of the address pattern in it, in order.

\* s.endswith(suffix)
EndsWith(s, suffix) ==
    Len(s) >= Len(suffix) /\ SubSeq(s, Len(s) - Len(suffix) + 1, Len(s)) = suffix

\* v3 extract_emails: re.findall(pattern, text), a list
v3_extract_emails(matches) == matches

\* '@uc3m.es' in email or '@pa.uc3m.es' in email: a substring test
ContainsUc3m(email) ==
    \E i \in 1..(Len(email) - 1) :
       email[i] = "@" /\ email[i + 1] \in {"uc3m.es", "pa.uc3m.es"}

\* v4 clean_email of a match of EMAIL_PATTERN: the search finds the match
\* itself, which ends in a letter, so that rstrip removes nothing
clean_email(email_text) ==
    IF ContainsUc3m(Lower(email_text)) THEN Lower(email_text) ELSE NULL

\* v4: [clean_email(e) for e in emails if clean_email(e)]
extract_emails_from_text(matches) ==
    LET kept == SelectSeq(matches, LAMBDA e : Truthy(clean_email(e)))
    IN [i \in 1..Len(kept) |-> clean_email(kept[i])]

\* ------------------------------------------------------ the parsed document
\* A document is the sequence of its nodes in document order. Node 1 is the
\* BeautifulSoup object, whose parent is None (0); a node named "#text" is a
\* NavigableString.
Tag(parent, name) == [parent |-> parent, name |-> name, text |-> EMPTY]

Str(parent, text) == [parent |-> parent, name |-> "#text", text |-> text]

IsString(dom, n) == dom[n].name = "#text"

\* node.parent, and the same node again
Same(dom, n) == n

Parent(dom, n) == dom[n].parent

RECURSIVE ParentAt(_, _, _)
\* node.parent taken k times, None past the BeautifulSoup object
ParentAt(dom, n, k) ==
    IF k = 0 \/ n = 0 THEN n ELSE ParentAt(dom, Parent(dom, n), k - 1)

\* node.parents
Ancestors(dom, n) == {ParentAt(dom, n, k) : k \in 1..Len(dom)} \ {0}

Within(dom, m, n) == m = n \/ n \in Ancestors(dom, m)

RECURSIVE StrippedStrings(_, _, _)
\* The strings at or below node n from node m on, stripped, the blank ones left out
StrippedStrings(dom, n, m) ==
    IF m > Len(dom) THEN << >>
    ELSE (IF IsString(dom, m) /\ Within(dom, m, n) /\ Strip(dom[m].text) # EMPTY
          THEN <<Strip(dom[m].text)>> ELSE << >>)
         \o StrippedStrings(dom, n, m + 1)

\* node.get_text(separator=" ", strip=True)
get_text(dom, n) == JoinWords(StrippedStrings(dom, n, 1))

\* node.previous_sibling, node.next_sibling
previous_sibling(dom, n) ==
    LET before == {m \in 1..(n - 1) : Parent(dom, m) = Parent(dom, n)}
    IN IF before = {} THEN 0 ELSE CHOOSE m \in before : \A k \in before : k <= m

next_sibling(dom, n) ==
    LET after == {m \in (n + 1)..Len(dom) : Parent(dom, m) = Parent(dom, n)}
    IN IF after = {} THEN 0 ELSE CHOOSE m \in after : \A k \in after : m <= k

\* node.find_parent(names): the nearest ancestor of one of the names
find_parent(dom, n, names) ==
    LET named == {m \in Ancestors(dom, n) : dom[m].name \in names}
    IN IF named = {} THEN 0 ELSE CHOOSE m \in named : \A k \in named : k <= m

\* node.find_all(names): the tags below the node, in document order
find_all(dom, n, names) ==
    SelectSeq([m \in 1..Len(dom) |-> m],
              LAMBDA m : m # n /\ Within(dom, m, n) /\ dom[m].name \in names)

\* text.find(sub)
Find(text, sub) ==
    LET at == {i \in 0..(Len(text) - Len(sub)) : SubSeq(text, i + 1, i + Len(sub)) = sub}
    IN IF sub = EMPTY THEN 0
       ELSE IF at = {} THEN -1
       ELSE CHOOSE i \in at : \A k \in at : i <= k

RECURSIVE Remove(_, _)
\* text.replace(sub, "")
Remove(text, sub) ==
    IF Len(text) < Len(sub) \/ sub = EMPTY THEN text
    ELSE IF SubSeq(text, 1, Len(sub)) = sub
         THEN Remove(SubSeq(text, Len(sub) + 1, Len(text)), sub)
    ELSE <<text[1]>> \o Remove(Tail(text), sub)

\* text.replace(email, "").strip() of the node's text
TextWithout(dom, n, email) == Strip(Remove(get_text(dom, n), email))

\* ------------------------------------- uc3m v3: extract_name_from_node
\* Line 37
v3_accepts(dom, n, email) ==
    LET words == WordCount(TextWithout(dom, n, email))
    IN 2 < words /\ words <= 8

\* ------------------------------------- uc3m v4: extract_name_advanced
Letters == {"A", "D", "J", "L", "O", "P", "a", "b", "d", "e", "j", "k", "l", "o", "p", "r",
            "u", "y"}

UpperChar(c) ==
    CASE c = "a" -> "A"
      [] c = "d" -> "D"
      [] c = "j" -> "J"
      [] c = "p" -> "P"
      [] c = "l" -> "L"
      [] c = "o" -> "O"
      [] OTHER -> c

\* str.title(): a letter after a letter is lower-cased, any other upper-cased
Title(s) ==
    [i \in 1..Len(s) |->
        IF i > 1 /\ s[i - 1] \in Letters THEN LowerChar(s[i]) ELSE UpperChar(s[i])]

Brackets == {".", ",", ";", ":", "(", ")", "[", "]", "{", "}"}

\* name.strip('.,;:()[]{}')
StripBrackets(s) ==
    IF \A i \in 1..Len(s) : s[i] \in Brackets THEN EMPTY
    ELSE LET lo == CHOOSE i \in 1..Len(s) :
                       /\ s[i] \notin Brackets
                       /\ \A j \in 1..(i - 1) : s[j] \in Brackets
             hi == CHOOSE i \in 1..Len(s) :
                       /\ s[i] \notin Brackets
                       /\ \A j \in (i + 1)..Len(s) : s[j] \in Brackets
         IN SubSeq(s, lo, hi)

DEPARTAMENTO == <<"departamento">>

normalize_name(name) ==
    IF ~Truthy(name) THEN NULL
    ELSE IF Lower(Strip(name)) \in {DEPARTAMENTO, <<"dept">>, <<"depto">>} THEN NULL
    ELSE LET collapsed == CollapseSpaces(Strip(name))
             words == WordCount(collapsed)
             titled == StripBrackets(Title(collapsed))
         IN IF words < 2 \/ words > 8 THEN NULL
            ELSE IF Len(titled) > 3 THEN titled ELSE NULL

\* candidate and hasattr(candidate, 'get_text'): a tag always has the method,
\* a string has it from Beautiful Soup 4.10 on and is false when empty
HasGetText(d, n) ==
    /\ n # 0
    /\ IsString(d.nodes, n) => d.strings_get_text /\ d.nodes[n].text # EMPTY

\* The name in the text of a node, the address taken out
NameIn(d, n) ==
    IF HasGetText(d, n) THEN normalize_name(TextWithout(d.nodes, n, d.email)) ELSE NULL

\* The last accepted name of the candidates, None without one
LastAcceptedName(names) ==
    LET accepted == SelectSeq(names, LAMBDA x : x # NULL)
    IN IF accepted = << >> THEN NULL ELSE accepted[Len(accepted)]

\* The first accepted name of the candidates in order, None without one
FirstName(names) ==
    LET accepted == SelectSeq(names, LAMBDA x : x # NULL)
    IN IF accepted = << >> THEN NULL ELSE accepted[1]

\* Lines 97-104: the node, its previous and its next sibling
Strategy1(d, n) ==
    FirstName(<<NameIn(d, n), NameIn(d, previous_sibling(d.nodes, n)),
                NameIn(d, next_sibling(d.nodes, n))>>)

\* Lines 107-123: the parent's siblings, then the parent's text
Strategy2(d, n) ==
    LET parent == Parent(d.nodes, n)
    IN IF parent = 0 THEN NULL
       ELSE FirstName(<<NameIn(d, previous_sibling(d.nodes, parent)),
                        NameIn(d, next_sibling(d.nodes, parent)),
                        normalize_name(TextWithout(d.nodes, parent, d.email))>>)

\* Lines 127-136: the cells of the table row that do not hold the address
Strategy3(d, n) ==
    LET parent == Parent(d.nodes, n)
        row == IF parent = 0 THEN 0 ELSE find_parent(d.nodes, parent, {"tr"})
        cells == IF row = 0 THEN << >> ELSE find_all(d.nodes, row, {"td", "th"})
    IN IF parent # 0 /\ d.nodes[parent].name \in {"td", "th"} /\ row # 0
       THEN FirstName([i \in 1..Len(cells) |->
                IF Find(get_text(d.nodes, cells[i]), d.email) = -1
                THEN normalize_name(get_text(d.nodes, cells[i])) ELSE NULL])
       ELSE NULL

\* Lines 139-144: the enclosing list item
Strategy4(d, n) ==
    LET parent == Parent(d.nodes, n)
    IN IF parent # 0 /\ d.nodes[parent].name = "li"
       THEN normalize_name(TextWithout(d.nodes, parent, d.email))
       ELSE NULL

\* words[-4:]
LastFour(words) ==
    IF Len(words) <= 4 THEN words ELSE SubSeq(words, Len(words) - 3, Len(words))

\* Lines 147-159: the last words before the address in the nearest container
Strategy5(d, n) ==
    LET container == find_parent(d.nodes, n, {"div", "span", "p"})
        full_text == IF container = 0 THEN EMPTY ELSE get_text(d.nodes, container)
        email_pos == Find(full_text, d.email)
        words == LastFour(Words(Strip(SubSeq(full_text, 1, email_pos))))
    IN IF container # 0 /\ email_pos > 0 /\ Len(words) >= 2
       THEN normalize_name(JoinWords(words))
       ELSE NULL

\* Lines 97-159: what the strategies before the recursion return at a node
StrategiesName(d, n) ==
    FirstName(<<Strategy1(d, n), Strategy2(d, n), Strategy3(d, n), Strategy4(d, n),
                Strategy5(d, n)>>)

\* ------------------------------------------------- the functions on their own
\* Longest full name given to split_first_last
MaxLen == 5

NameChars == {"A", "o", " "}

StringsUpTo(n) == UNION {[1..k -> NameChars] : k \in 0..n}

\* Arguments of generate_email: None, "", blank, plain, padded, a symbol,
\* an accented letter, punctuation
NameParts ==
    {NULL, EMPTY, <<" ">>, <<"A", "l">>, <<" ", "P", "o", " ">>, <<"star">>,
     <<"e_acute", "l">>, <<"D", ".", "o">>, <<".">>}

\* Most matches of an address pattern in one text
MaxMatches == 2

\* Addresses as a text shows them; an address is spelled in characters up
\* to the "@" and its domain in pieces
TextEmails ==
    {RAW_APO, E_APO, <<"A", "l", "@", "UC3M.ES">>, <<"a", "l", "@", "uc3m.es">>,
     <<"a", "l", "@", "uc3m.es", ".example.org">>, <<"a", "l", "@", "example.org">>}

MatchesUpTo(n) == UNION {[1..k -> TextEmails] : k \in 0..n}

\* The address looked for in a document, and texts found near it
E_AL == <<"a", "l", "@", "uc3m.es">>

NearTexts ==
    {<<"A", "l", " ", "P", "o">>, <<"a", "l", " ", "A", " ", "p", "o", ".">>,
     <<"A", " ", "o">>, <<".">>, DEPARTAMENTO,
     <<"A", " ", "o", " ", "A", " ", "o", " ", "A", "l">>,
     <<"1", " ", "2", " ", ".">>}

JO_DOE == <<"J", "o", " ", "D", "o", "e">>

DOCUMENT == Tag(0, "[document]")

\* An anchor of the address alone in the page
DomAlone ==
    <<DOCUMENT, Tag(1, "html"), Tag(2, "div"), Tag(3, "a"), Str(4, E_AL)>>

\* A text before the anchor
DomBefore(t) ==
    <<DOCUMENT, Tag(1, "div"), Str(2, t), Tag(2, "a"), Str(4, E_AL)>>

\* The address inside a paragraph's text
DomInText(t) ==
    <<DOCUMENT, Tag(1, "div"), Tag(2, "p"), Str(3, t \o <<" ">> \o E_AL), Tag(2, "p"),
      Str(5, <<" ">>)>>

\* A table row: a text, a cell in between, the anchor
DomRow(t) ==
    <<DOCUMENT, Tag(1, "tr"), Tag(2, "td"), Str(3, t), Tag(2, "td"), Tag(2, "td"),
      Tag(6, "a"), Str(7, E_AL)>>

\* A list item
DomItem(t) ==
    <<DOCUMENT, Tag(1, "ul"), Tag(2, "li"), Tag(3, "b"), Tag(4, "a"), Str(5, E_AL),
      Str(3, t)>>

\* A heading before the paragraph that holds a text, a line break and the anchor
DomAside(t) ==
    <<DOCUMENT, Tag(1, "div"), Tag(2, "h3"), Str(3, t), Tag(2, "p"), Str(5, JO_DOE),
      Tag(5, "br"), Tag(5, "a"), Str(8, E_AL)>>

Doms ==
    {DomAlone} \cup UNION {{DomBefore(t), DomInText(t), DomRow(t), DomItem(t),
                             DomAside(t)} : t \in NearTexts}

NoDom == [nodes |-> << >>, start |-> 0, email |-> EMPTY, strings_get_text |-> FALSE]

\* The walk starts at the anchor of the address or at the parent of the
\* string that holds it (v3 lines 116, 126; v4 lines 268, 286)
DomInputs ==
    {[nodes |-> dom, start |-> n, email |-> E_AL, strings_get_text |-> g] :
        dom \in Doms, n \in 1..8, g \in BOOLEAN}

StartsAtAddress(d) ==
    /\ d.start \in 1..Len(d.nodes)
    /\ \/ /\ d.nodes[d.start].name = "a"
          /\ Find(get_text(d.nodes, d.start), d.email) # -1
       \/ \E m \in 1..Len(d.nodes) :
             /\ IsString(d.nodes, m)
             /\ Parent(d.nodes, m) = d.start
             /\ Find(d.nodes[m].text, d.email) # -1

FunctionInputs ==
    {[kind |-> "full_name", full_name |-> s, first |-> NULL, last |-> NULL,
      matches |-> << >>, dom |-> NoDom] : s \in StringsUpTo(MaxLen)}
    \cup {[kind |-> "pair", full_name |-> NULL, first |-> a, last |-> b,
            matches |-> << >>, dom |-> NoDom] : a \in NameParts, b \in NameParts}
    \cup {[kind |-> "matches", full_name |-> NULL, first |-> NULL, last |-> NULL,
            matches |-> m, dom |-> NoDom] : m \in MatchesUpTo(MaxMatches)}
    \cup {[kind |-> "dom", full_name |-> NULL, first |-> NULL, last |-> NULL,
            matches |-> << >>, dom |-> d] : d \in {x \in DomInputs : StartsAtAddress(x)}}

FunctionsInit ==
    /\ StorageEmpty
    /\ pc = "functions"
    /\ web \in FunctionInputs
    /\ profile_links = {}
    /\ remaining = {}
    /\ visited = 0
    /\ found_detail_emails = 0
    /\ queue = << >>
    /\ seen = {}
    /\ pages = 0
    /\ robots_cache = {}
    /\ requested = << >>
    /\ NoV4Run

\* A function is called on the input and its result kept
Called(op, arg, result) ==
    /\ pc = "functions"
    /\ call' = [op |-> <<op>>, arg |-> arg, outcome |-> result]
    /\ UNCHANGED <<contacts, profiles, raw_csv, crm_csv, pc, web, uc3m_vars, main_vars, crawl_vars>>

CallSplit ==
    /\ web.kind = "full_name"
    /\ Called("split_first_last", web.full_name, split_first_last(web.full_name))

CallWsSplit ==
    /\ web.kind = "full_name"
    /\ Called("ws_split_first_last", web.full_name, ws_split_first_last(web.full_name))

CallGenerateEmail ==
    /\ web.kind = "pair"
    /\ Called("generate_email", <<web.first, web.last>>,
              generate_email(web.first, web.last))

\* EMAIL_RE of main.py matches addresses at berkeley.edu only
CallExtractEmailsFromHtml ==
    /\ web.kind = "matches"
    /\ \A i \in 1..Len(web.matches) : EndsWith(web.matches[i], AT_BERKELEY)
    /\ Called("extract_emails_from_html", web.matches, extract_emails_from_html(web.matches))

CallExtractEmailsV3 ==
    /\ web.kind = "matches"
    /\ Called("v3_extract_emails", web.matches, v3_extract_emails(web.matches))

CallExtractEmailsV4 ==
    /\ web.kind = "matches"
    /\ Called("extract_emails_from_text", web.matches, extract_emails_from_text(web.matches))

\* Most calls of one walk the model follows
MaxCalls == 8

Walking == pc = "functions" /\ web.kind = "dom" /\ call.outcome = <<"running">>

\* A call of a walk: the nodes passed so far, 0 for None
Frame(op, nodes, outcome) == [op |-> <<op>>, arg |-> nodes, outcome |-> outcome]

WalkStarts(op) ==
    /\ pc = "functions"
    /\ web.kind = "dom"
    /\ ~Walking
    /\ call' = Frame(op, <<web.dom.start>>, <<"running">>)
    /\ UNCHANGED <<contacts, profiles, raw_csv, crm_csv, pc, web, uc3m_vars, main_vars, crawl_vars>>

\* The node passed to the call at hand
Node == call.arg[Len(call.arg)]

\* v3 lines 29-41: the call on the last of the nodes returns, or calls
\* extract_name_from_node on the parent
extract_name_from_node(d, nodes) ==
    LET node == nodes[Len(nodes)]
    IN IF node = 0 THEN Frame("extract_name_from_node", nodes, NULL)
       ELSE IF v3_accepts(d.nodes, node, d.email)
       THEN Frame("extract_name_from_node", nodes, TextWithout(d.nodes, node, d.email))
       ELSE Frame("extract_name_from_node", Append(nodes, Parent(d.nodes, node)),
                  <<"running">>)

\* v4 lines 94-165
extract_name_advanced(d, nodes) ==
    LET node == nodes[Len(nodes)]
    IN IF node = 0 THEN Frame("extract_name_advanced", nodes, NULL)
       ELSE IF StrategiesName(d, node) # NULL
       THEN Frame("extract_name_advanced", nodes, StrategiesName(d, node))
       ELSE IF Parent(d.nodes, node) # 0
       THEN Frame("extract_name_advanced", Append(nodes, Parent(d.nodes, node)),
                  <<"running">>)
       ELSE Frame("extract_name_advanced", nodes, NULL)

V3Start == WalkStarts("extract_name_from_node")

V3Step ==
    /\ Walking
    /\ call.op = <<"extract_name_from_node">>
    /\ Len(call.arg) < MaxCalls
    /\ call' = extract_name_from_node(web.dom, call.arg)
    /\ UNCHANGED <<contacts, profiles, raw_csv, crm_csv, pc, web, uc3m_vars, main_vars, crawl_vars>>

V4Start == WalkStarts("extract_name_advanced")

V4Step ==
    /\ Walking
    /\ call.op = <<"extract_name_advanced">>
    /\ Len(call.arg) < MaxCalls
    /\ call' = extract_name_advanced(web.dom, call.arg)
    /\ UNCHANGED <<contacts, profiles, raw_csv, crm_csv, pc, web, uc3m_vars, main_vars, crawl_vars>>

FunctionsNext ==
    \/ V3Start
    \/ V3Step
    \/ V4Start
    \/ V4Step
    \/ CallSplit
    \/ CallWsSplit
    \/ CallGenerateEmail
    \/ CallExtractEmailsFromHtml
    \/ CallExtractEmailsV3
    \/ CallExtractEmailsV4

SpecFunctions == FunctionsInit /\ [][FunctionsNext]_vars

\* ------------------------------------------ uc3m v4: main and crawl_personal
\* Most departments in the list of departments
MaxDepartments == 2

JOE_DOE_AT == <<"j", "o", "e", ".", "d", "o", "e", "@", "uc3m.es">>

\* Addresses as an anchor, a text or a table cell shows them
V4Addresses ==
    {E_AL, <<"A", "l", "@", "UC3M.ES">>, JOE_DOE_AT, <<"a", "l", "@", "example.org">>}

\* What extract_name_advanced returns for an address: None or a name
V4Names == {NULL, N_AL_PO, N_PO}

\* Texts of the table cell that is taken for the name
V4Cells == {NULL, N_AL_PO, <<"A", " ", "o">>}

\* email.split("@")[0]
LocalPart(email) ==
    IF \A i \in 1..Len(email) : email[i] # "@" THEN email
    ELSE SubSeq(email, 1, (CHOOSE i \in 1..Len(email) :
                              email[i] = "@" /\ \A j \in 1..(i - 1) : email[j] # "@") - 1)

RECURSIVE SplitDots(_)
\* local_part.split(".")
SplitDots(s) ==
    IF \A i \in 1..Len(s) : s[i] # "." THEN <<s>>
    ELSE LET i == CHOOSE k \in 1..Len(s) : s[k] = "." /\ \A j \in 1..(k - 1) : s[j] # "."
         IN <<SubSeq(s, 1, i - 1)>> \o SplitDots(SubSeq(s, i + 1, Len(s)))

\* str.capitalize()
Capitalize(s) == [i \in 1..Len(s) |-> IF i = 1 THEN UpperChar(s[i]) ELSE LowerChar(s[i])]

LongPart(part) == Len(part) > 2

infer_name_from_email(email) ==
    IF ~Truthy(email) THEN NULL
    ELSE LET parts == SplitDots(LocalPart(email))
             name_parts == SelectSeq(SubSeq(parts, 1, Min2(3, Len(parts))), LongPart)
         IN IF Len(parts) >= 2 /\ Len(name_parts) >= 2
            THEN JoinWords([i \in 1..Len(name_parts) |-> Capitalize(name_parts[i])])
            ELSE NULL

\* dep_nombre of the department at position i of the list
Nombre(i) == <<"departamento", i>>

\* Mutant: an address seen before is taken again
NotSeenOrSeen(email, seen_emails) == email # NULL

\* email and email not in seen_emails
NotSeen(email, seen_emails) == email # NULL /\ email \notin seen_emails

V4Init ==
    /\ StorageEmpty
    /\ pc = "v4_main"
    /\ web = NULL
    /\ profile_links = {}
    /\ remaining = {}
    /\ visited = 0
    /\ found_detail_emails = 0
    /\ queue = << >>
    /\ seen = {}
    /\ pages = 0
    /\ robots_cache = {}
    /\ requested = << >>
    /\ NoV4Run

V4Unchanged == UNCHANGED <<storage_vars, call, web, main_vars, crawl_vars>>

\* main, lines 400-426: the next department is taken, its address kept when
\* it is new, and its web site crawled when it has one
V4Department(raw, has_web) ==
    /\ pc = "v4_main"
    /\ idx < MaxDepartments
    /\ idx' = idx + 1
    /\ LET email_dep == IF raw = NULL THEN NULL ELSE clean_email(raw)
       IN IF email_dep # NULL /\ email_dep \notin seen_emails_global
          THEN /\ seen_emails_global' = seen_emails_global \cup {email_dep}
               /\ datos_finales' = Append(datos_finales, <<Nombre(idx'), <<"Departamento">>, email_dep>>)
          ELSE UNCHANGED <<seen_emails_global, datos_finales>>
    /\ pc' = IF has_web THEN "v4_crawl" ELSE "v4_main"
    /\ resultados' = << >>
    /\ visited_v4' = 0
    /\ UNCHANGED datos_unicos
    /\ V4Unchanged

\* crawl_personal, lines 250-258: the next page is taken; a page that cannot
\* be read is passed over
V4GetSoup(ok) ==
    /\ pc \in {"v4_crawl", "v4_mailto", "v4_text", "v4_tables"}
    /\ visited_v4 < MaxPages
    /\ visited_v4' = visited_v4 + 1
    /\ pc' = IF ok THEN "v4_mailto" ELSE "v4_crawl"
    /\ UNCHANGED <<seen_emails_global, datos_finales, datos_unicos, resultados, idx>>
    /\ V4Unchanged

\* A new address is added to seen_emails and its tuple to resultados
V4Observed(email, name) ==
    /\ IF NotSeen(email, seen_emails_global)
       THEN /\ seen_emails_global' = seen_emails_global \cup {email}
            /\ resultados' = Append(resultados, <<Nombre(idx), name, email>>)
       ELSE UNCHANGED <<seen_emails_global, resultados>>
    /\ UNCHANGED <<datos_finales, datos_unicos, idx, visited_v4>>
    /\ V4Unchanged

\* Lines 261-274: an anchor with a mailto: href
V4Mailto(raw, name) ==
    /\ pc = "v4_mailto"
    /\ pc' = pc
    /\ LET email == clean_email(raw)
       IN V4Observed(email, IF Truthy(name) THEN name ELSE infer_name_from_email(email))

\* Lines 277-293: an address of the text of the page
V4TextEmail(raw, name) ==
    /\ pc \in {"v4_mailto", "v4_text"}
    /\ pc' = "v4_text"
    /\ clean_email(raw) # NULL
    /\ LET email == clean_email(raw)
       IN V4Observed(email, IF Truthy(name) THEN name ELSE infer_name_from_email(email))

\* Lines 297-318: a table row of two cells or more, one of them an address
V4TableRow(raw, text) ==
    /\ pc \in {"v4_mailto", "v4_text", "v4_tables"}
    /\ pc' = "v4_tables"
    /\ LET potential_email == clean_email(raw)
           potential_name == IF text = NULL THEN NULL ELSE normalize_name(text)
       IN V4Observed(potential_email,
                     IF Truthy(potential_name) THEN potential_name
                     ELSE infer_name_from_email(potential_email))

\* Lines 341-342 and main, line 424: crawl_personal returns resultados
V4CrawlReturns ==
    /\ pc \in {"v4_crawl", "v4_mailto", "v4_text", "v4_tables"}
    /\ datos_finales' = datos_finales \o resultados
    /\ resultados' = << >>
    /\ pc' = "v4_main"
    /\ UNCHANGED <<seen_emails_global, datos_unicos, idx, visited_v4>>
    /\ V4Unchanged

RECURSIVE Unicos(_, _)
\* main, lines 429-434
Unicos(datos, emails_vistos) ==
    IF datos = << >> THEN << >>
    ELSE LET email == datos[1][3]
         IN IF Truthy(email) /\ email \notin emails_vistos
            THEN <<datos[1]>> \o Unicos(Tail(datos), emails_vistos \cup {email})
            ELSE Unicos(Tail(datos), emails_vistos)

\* main, lines 428-437: the loop of the departments is over
V4Dedup ==
    /\ pc = "v4_main"
    /\ idx > 0
    /\ datos_unicos' = Unicos(datos_finales, {})
    /\ pc' = "v4_done"
    /\ UNCHANGED <<seen_emails_global, datos_finales, resultados, idx, visited_v4>>
    /\ V4Unchanged

V4Next ==
    \/ \E raw \in V4Addresses \cup {NULL}, has_web \in BOOLEAN : V4Department(raw, has_web)
    \/ \E ok \in BOOLEAN : V4GetSoup(ok)
    \/ \E raw \in V4Addresses, name \in V4Names : V4Mailto(raw, name)
    \/ \E raw \in V4Addresses, name \in V4Names : V4TextEmail(raw, name)
    \/ \E raw \in V4Addresses, text \in V4Cells : V4TableRow(raw, text)
    \/ V4CrawlReturns
    \/ V4Dedup

SpecV4 == V4Init /\ [][V4Next]_vars

\* --------------------------------------------- uc3m v1: fetch (lines 60-71)
\* Largest max_retries a call is made with
MaxRetries == 2

\* What requests.get does: it raises, or answers with a status
RequestExceptions == {"ConnectionError", "Timeout"}

FetchAnswers ==
    {[raised |-> e, status |-> 0] : e \in RequestExceptions \cup {"KeyboardInterrupt"}}
    \cup {[raised |-> "none", status |-> st] : st \in {200, 404, 500}}

\* resp.raise_for_status() raises HTTPError, a RequestException
RaisesForStatus(answer) == answer.raised = "none" /\ answer.status >= 400

\* The try block raises a requests.RequestException
RequestFailed(answer) == answer.raised \in RequestExceptions \/ RaisesForStatus(answer)

\* Mutant: every attempt is the last
LastAttemptAlways(attempt, max_retries) == TRUE

\* Line 67 is false: the attempt at hand is the last of range(max_retries + 1)
LastAttempt(attempt, max_retries) == ~(attempt < max_retries)

\* What fetch returns when it returns a response
Response(answer) == <<"response", answer>>

FetchFrame(url, max_retries, attempt, requests, outcome) ==
    [op |-> <<"fetch">>,
     arg |-> [url |-> url, max_retries |-> max_retries, attempt |-> attempt,
              requests |-> requests],
     outcome |-> outcome]

Fetches == call.op = <<"fetch">> /\ call.outcome = <<"running">>

FetchInit ==
    /\ StorageEmpty
    /\ pc = "fetch"
    /\ web = NULL
    /\ profile_links = {}
    /\ remaining = {}
    /\ visited = 0
    /\ found_detail_emails = 0
    /\ queue = << >>
    /\ seen = {}
    /\ pages = 0
    /\ robots_cache = {}
    /\ requested = << >>
    /\ NoV4Run

FetchUnchanged ==
    UNCHANGED <<contacts, profiles, raw_csv, crm_csv, pc, web, uc3m_vars, main_vars, crawl_vars>>

\* fetch(url, max_retries = max_retries) is called
FetchCalled(url, max_retries) ==
    /\ pc = "fetch"
    /\ call.op = <<"none">>
    /\ call' = FetchFrame(url, max_retries, 0, << >>, <<"running">>)
    /\ FetchUnchanged

\* Lines 62-64: the request succeeds and its response is returned
FetchReturns(answer) ==
    /\ Fetches
    /\ call.arg.attempt < call.arg.max_retries + 1
    /\ answer.raised = "none" /\ ~RaisesForStatus(answer)
    /\ call' = FetchFrame(call.arg.url, call.arg.max_retries, call.arg.attempt,
                          Append(call.arg.requests, answer), Response(answer))
    /\ FetchUnchanged

\* Lines 65-67: the request fails and the loop goes on after the sleep
FetchRetries(answer) ==
    /\ Fetches
    /\ call.arg.attempt < call.arg.max_retries + 1
    /\ RequestFailed(answer)
    /\ ~LastAttempt(call.arg.attempt, call.arg.max_retries)
    /\ call' = FetchFrame(call.arg.url, call.arg.max_retries, call.arg.attempt + 1,
                          Append(call.arg.requests, answer), <<"running">>)
    /\ FetchUnchanged

\* Lines 68-70: the last request fails and None is returned
FetchGivesUp(answer) ==
    /\ Fetches
    /\ call.arg.attempt < call.arg.max_retries + 1
    /\ RequestFailed(answer)
    /\ LastAttempt(call.arg.attempt, call.arg.max_retries)
    /\ call' = FetchFrame(call.arg.url, call.arg.max_retries, call.arg.attempt,
                          Append(call.arg.requests, answer), NULL)
    /\ FetchUnchanged

\* An exception that is no RequestException is not caught
FetchRaises(answer) ==
    /\ Fetches
    /\ call.arg.attempt < call.arg.max_retries + 1
    /\ answer.raised # "none" /\ ~RequestFailed(answer)
    /\ call' = FetchFrame(call.arg.url, call.arg.max_retries, call.arg.attempt,
                          Append(call.arg.requests, answer), <<"raised">>)
    /\ FetchUnchanged

\* range(max_retries + 1) is used up: the function ends without a return
FetchLoopOver ==
    /\ Fetches
    /\ ~(call.arg.attempt < call.arg.max_retries + 1)
    /\ call' = FetchFrame(call.arg.url, call.arg.max_retries, call.arg.attempt,
                          call.arg.requests, NULL)
    /\ FetchUnchanged

FetchNext ==
    \/ \E url \in URLS, max_retries \in (0 - 1)..MaxRetries : FetchCalled(url, max_retries)
    \/ \E answer \in FetchAnswers :
          \/ FetchReturns(answer)
          \/ FetchRetries(answer)
          \/ FetchGivesUp(answer)
          \/ FetchRaises(answer)
    \/ FetchLoopOver

SpecFetch == FetchInit /\ [][FetchNext]_vars

\* ------------------------------------------------------- claims on storage
\* The identity of a Contact (spec, section 3)
Identity(r) == <<r.source_url, r.full_name, r.email_found, r.email_generated>>

\* The nine columns of an observation, the id apart
Observation(r) ==
    <<r.source_url, r.full_name, r.first_name, r.last_name, r.email_found,
      r.email_generated, r.method, r.confidence, r.notes>>

CalledUpsertContact == call.op = <<"upsert_contact">>
CalledUpsertProfile == call.op = <<"upsert_profile">>
CalledExportCrm == call.op = <<"export_crm_csv">>

OneRowPerIdentity ==
    \A i, j \in 1..Len(contacts) :
        Identity(contacts[i]) = Identity(contacts[j]) => i = j

\* C1: the contacts table never holds two rows of one identity, and an upsert
\* of an identity already stored returns normally and leaves the table as it was.
C1_OneRowPerIdentity ==
    /\ []OneRowPerIdentity
    /\ [][\A rec \in ContactInputs :
            (/\ UpsertContact(rec)
             /\ \E i \in 1..Len(contacts) : Identity(contacts[i]) = Identity(rec))
            => (contacts' = contacts /\ call'.outcome = Returned)]_vars

\* An upsert of a stored identity under another method tag has been ignored.
C1_Witness ==
    /\ CalledUpsertContact
    /\ call.outcome = Returned
    /\ \E i \in 1..Len(contacts) :
          /\ Identity(contacts[i]) = Identity(call.arg)
          /\ contacts[i].method # call.arg.method

\* C2: a stored Contact row keeps its place and all its fields whatever call
\* comes next (upsert_contact, upsert_profile or an export).
C2_ContactsAppendOnly ==
    [][\A i \in 1..Len(contacts) :
          i <= Len(contacts') /\ contacts'[i] = contacts[i]]_vars

\* Two rows, a profile and both exports have followed the first stored row.
C2_Witness ==
    /\ Len(contacts) >= 2
    /\ Len(profiles) >= 1
    /\ raw_csv.written
    /\ crm_csv.written

\* C3 as claimed: an observation that differs in some column from every stored
\* row adds a row.
C3_AnyDifferenceAddsRow ==
    [][\A rec \in ContactInputs :
          (/\ UpsertContact(rec)
           /\ \A i \in 1..Len(contacts) : Observation(contacts[i]) # Observation(rec))
          => Len(contacts') = Len(contacts) + 1]_vars

\* C3 amended: a row is added exactly when the identity key of the observation
\* ("|".join of source_url, full_name, email_found, email_generated, null as
\* "") is the key of no stored row; otherwise the table is left as it was,
\* also when method, confidence, notes or the split names differ.
C3_NewKeyAddsRow ==
    [][\A rec \in ContactInputs :
          UpsertContact(rec) =>
             IF \E i \in 1..Len(contacts) : contact_key(contacts[i]) = contact_key(rec)
             THEN contacts' = contacts
             ELSE /\ Len(contacts') = Len(contacts) + 1
                  /\ Observation(contacts'[Len(contacts')]) = Observation(rec)]_vars

\* A second observation of a page, of another identity, became a new row.
C3_Witness ==
    /\ CalledUpsertContact
    /\ Len(contacts) >= 2
    /\ Observation(contacts[Len(contacts)]) = Observation(call.arg)
    /\ \E i \in 1..(Len(contacts) - 1) :
          /\ contacts[i].source_url = call.arg.source_url
          /\ Identity(contacts[i]) # Identity(call.arg)

ProfileFields == {"full_name", "first_name", "last_name", "university", "department"}

\* C4: no field of a stored Profile goes from non-null to null, and an
\* upsert_profile that passes null for a field leaves that field as stored.
C4_ProfileCoalesce ==
    /\ [][\A i \in 1..Len(profiles) :
            /\ i <= Len(profiles')
            /\ profiles'[i].source_url = profiles[i].source_url
            /\ \A f \in ProfileFields :
                  profiles[i][f] # NULL => profiles'[i][f] # NULL]_vars
    /\ [][\A row \in ProfileInputs : UpsertProfile(row) =>
            \A i \in 1..Len(profiles) :
               profiles[i].source_url = row.source_url =>
                  \A f \in ProfileFields :
                     row[f] = NULL => profiles'[i][f] = profiles[i][f]]_vars

\* A null department was upserted over a stored department.
C4_Witness ==
    /\ CalledUpsertProfile
    /\ call.arg.department = NULL
    /\ call.arg.full_name # NULL
    /\ \E i \in 1..Len(profiles) :
          /\ profiles[i].source_url = call.arg.source_url
          /\ profiles[i].department = PHYSICS
          /\ profiles[i].full_name = call.arg.full_name

\* The dedup key the spec gives a contact joined to its profile: the preferred
\* email when there is one, else the id made of name and source URL.
ExpectedKey(c, p) ==
    LET e == IF c.email_found # NULL THEN c.email_found ELSE c.email_generated
        name == IF Truthy(p.full_name) THEN p.full_name
                ELSE IF Truthy(c.full_name) THEN c.full_name ELSE EMPTY
    IN IF Truthy(e) THEN e ELSE Uuid5(Strip(name) \o BAR \o c.source_url)

ExpectedKeys ==
    {ExpectedKey(contacts[i], ProfileFor(profiles, contacts[i].source_url)) :
        i \in 1..Len(contacts)}

\* The key of a written CRM row, read off its columns
WrittenKey(r) == IF r.Email # EMPTY THEN r.Email ELSE r.id

\* C5: in the CRM file no two rows share a dedup key, and the keys of its rows
\* are exactly the keys of the stored contacts joined to their profiles.
C5_OneRowPerKey ==
    [][(ExportCrmCsv /\ call'.outcome = Returned) =>
          LET out == crm_csv'.rows
          IN /\ \A i, j \in 1..Len(out) :
                   WrittenKey(out[i]) = WrittenKey(out[j]) => i = j
             /\ {WrittenKey(out[i]) : i \in 1..Len(out)} = ExpectedKeys]_vars

\* Two contacts of different pages with one preferred email were exported as
\* one row.
C5_Witness ==
    /\ CalledExportCrm
    /\ call.outcome = Returned
    /\ crm_csv.written
    /\ Len(crm_csv.rows) < Len(contacts)
    /\ \E i, j \in 1..Len(contacts) :
          /\ contacts[i].source_url # contacts[j].source_url
          /\ PreferredEmail(contacts[i]) = PreferredEmail(contacts[j])
          /\ PreferredEmail(contacts[i]) = E_APO

CanonSeq(S) == CHOOSE s \in SeqsOf(S) : TRUE

RECURSIVE VisitInOrder(_, _, _, _)
\* The tables after the profile loop has taken the links in the given order
VisitInOrder(c_table, p_table, links, w) ==
    IF links = << >> THEN [contacts |-> c_table, profiles |-> p_table]
    ELSE LET after == ProfileVisited(c_table, p_table, Head(links), w.resp[Head(links)],
                          CanonSeq(extract_emails_from_html(w.resp[Head(links)].page.emails)))
         IN VisitInOrder(after.contacts, after.profiles, Tail(links), w)

\* The CRM rows of a run over the web w that takes the profile links in the
\* given order
CrmOfRun(w, links) ==
    LET c0 == ListPageContacts(<< >>, LIST_URL,
                  CanonSeq(extract_emails_from_html(w.list.emails)),
                  CanonSeq(extract_names_from_list_html(w.list.cards)))
        t  == VisitInOrder(c0, << >>, links, w)
    IN export_crm_csv(t.contacts, t.profiles)

RowSet(rows) == {rows[i] : i \in 1..Len(rows)}

\* C7 as claimed: over the pages of a finished run, the set of CRM rows is
\* the same for every order in which the profile pages are taken, the order
\* within each page being the same.
C7_ExportSameInEveryOrder ==
    pc = "done" =>
       \A o1, o2 \in SeqsOf(profile_links) :
          RowSet(CrmOfRun(web, o1)) = RowSet(CrmOfRun(web, o2))

FetchFailed(resp) ==
    resp.raises \/ resp.status # 200 \/ resp.content_type = APPLICATION_PDF

StoredFor(link) ==
    \/ \E i \in 1..Len(contacts) : contacts[i].source_url = link
    \/ \E i \in 1..Len(profiles) : profiles[i].source_url = link

\* C9: a profile link whose fetch raises, answers another status than 200 or
\* other content than HTML changes neither table, the loop goes on to the
\* links that remain, and the finished run has taken every link, stored
\* nothing for the failed ones and written both files.
C9_ProfileFetchFailureIsolated ==
    /\ [][\A link \in remaining :
            (MainProfile(link) /\ FetchFailed(web.resp[link])) =>
               /\ contacts' = contacts
               /\ profiles' = profiles
               /\ pc' = "profiles"
               /\ remaining' = remaining \ {link}]_vars
    /\ [](pc = "done" =>
            /\ remaining = {}
            /\ raw_csv.written /\ crm_csv.written
            /\ \A link \in profile_links :
                  FetchFailed(web.resp[link]) => ~StoredFor(link))

\* A run is finished whose first profile answered 404 and whose second one
\* was stored.
C9_Witness ==
    /\ pc = "done"
    /\ profile_links = {P1, P2}
    /\ web.resp[P1].status = 404
    /\ ~FetchFailed(web.resp[P2])
    /\ StoredFor(P2)
    /\ ~StoredFor(P1)

\* ------------------------------------------ claims on the contacts of a page
\* Lines 429-443 of main.py before lines 415-426
ListNamesFirst(table, source_url, eo, no) ==
    UpsertAll(UpsertAll(table, ListNamed(source_url, ListStoredNames(no))),
              ListFound(source_url, eo))

\* Lines 288-302 of web_scrapping.py before lines 273-285
CrawlNamesFirst(table, url, eo, no) ==
    WsUpsertAll(WsUpsertAll(table, CrawlNamed(url, CrawlStoredNames(no))),
                CrawlFound(url, eo))

\* The rows of a page for one address or one name
RowsOf(table, url, e, n) ==
    {i \in 1..Len(table) : /\ table[i].source_url = url
                           /\ table[i].email_found = e
                           /\ table[i].full_name = n}

OneRowEach(table, url, emails, names) ==
    /\ \A e \in emails : Cardinality(RowsOf(table, url, e, NULL)) = 1
    /\ \A n \in names : Cardinality(RowsOf(table, url, NULL, n)) = 1

\* The page crawl is about to process
CrawlNextPage ==
    IF pc = "crawl" /\ queue # << >> /\ pages < MaxPages
    THEN {u \in CrawlUrls : /\ Fetching(u, Head(queue)[2])
                            /\ ~CrawlFetchSkipped(web.resp[u])}
    ELSE {}

\* C8: when a page is about to be processed, the found-email contacts and the
\* name-derived contacts stored in either order leave the same rows in the
\* table, and each distinct address and each distinct name of the page has
\* exactly one row, however often the page yields it.
C8_PageStepsCommute ==
    /\ pc = "list" =>
          \A eo \in SeqsOf(extract_emails_from_html(web.list.emails)) :
          \A no \in SeqsOf(extract_names_from_list_html(web.list.cards)) :
             LET a == ListPageContacts(contacts, LIST_URL, eo, no)
                 b == ListNamesFirst(contacts, LIST_URL, eo, no)
             IN /\ RowSet(a) = RowSet(b)
                /\ OneRowEach(a, LIST_URL, RowSet(eo), RowSet(ListStoredNames(no)))
    /\ \A u \in CrawlNextPage :
          \A eo \in SeqsOf(extract_emails_from_html(web.resp[u].page.emails)) :
          \A no \in SeqsOf(extract_names_and_titles(web.resp[u].page.candidates)) :
             LET a == CrawlPageContacts(contacts, u, eo, no)
                 b == CrawlNamesFirst(contacts, u, eo, no)
             IN /\ RowSet(a) = RowSet(b)
                /\ OneRowEach(a, u, RowSet(eo), RowSet(CrawlStoredNames(no)))

\* A crawl has processed the listing, whose address is written twice and
\* whose name is a candidate twice, and has one row of each
C8_Witness ==
    /\ pc = "crawl"
    /\ LIST_URL \in seen
    /\ Len(web.resp[LIST_URL].page.emails) = 2
    /\ Cardinality(web.resp[LIST_URL].page.candidates) = 2
    /\ Cardinality(RowsOf(contacts, LIST_URL, E_JD, NULL)) = 1
    /\ Cardinality(RowsOf(contacts, LIST_URL, NULL, N_AL_PO)) = 1
    /\ Len(contacts) >= 2

\* ----------------------------------------------------- claims on the crawl
\* C10 as claimed: a step of crawl that fetches a page whose request raises,
\* answers another status than 200 or other content than HTML stores no
\* contact, counts no page, enqueues nothing and leaves the crawl running.
C10_FailedFetchSkipped ==
    [][\A u \in CrawlUrls, depth \in 0..MaxDepth :
          Fetching(u, depth) /\ FetchFailed(web.resp[u]) =>
             /\ contacts' = contacts
             /\ pages' = pages
             /\ queue' = Tail(queue)
             /\ pc' = "crawl"]_vars

\* ------------------------------------------------- claims on the start URLs
MainRunning == pc \in {"start", "list", "profiles", "export_raw", "export_crm", "done",
                       "failed", "aborted"}

CrawlRunning == pc \in {"crawl_start", "crawl", "crawl_done", "crawl_failed"}

BadSeed == \E i \in 1..Len(web.seeds) :
              ~same_registered_domain(NormalizeSeed(web.seeds[i]), BERKELEY_DOMAIN)

\* C11 as claimed: a run started with a URL outside berkeley.edu fetches no
\* page and stores no record, in main.py and in crawl alike.
C11_ForeignSeedFatal ==
    /\ MainRunning /\ ~same_registered_domain(web.url, BERKELEY_DOMAIN) =>
          pc \in {"start", "aborted"} /\ contacts = << >> /\ visited = 0
    /\ CrawlRunning /\ BadSeed =>
          contacts = << >> /\ pages = 0 /\ ~raw_csv.written

\* ------------------------------------------------ claims on errors in a page
\* C12 as claimed: no error in the records of a page ends a run before its
\* export: a run of main.py or of crawl that has failed has written its CSV.
C12_PageErrorNotFatal ==
    pc \in {"failed", "crawl_failed"} => raw_csv.written

\* --------------------------------------------- claims on the stored contacts
\* C13 as claimed: a stored contact has confidence 1.0 with a found address,
\* 0.5 to 0.6 with a generated address only, 0.2 to 0.3 with neither, and
\* always a confidence in [0, 1].
C13_ConfidenceByEvidence ==
    \A i \in 1..Len(contacts) :
       /\ 0 <= contacts[i].confidence /\ contacts[i].confidence <= 100
       /\ IF contacts[i].email_found # NULL THEN contacts[i].confidence = 100
          ELSE IF contacts[i].email_generated # NULL
               THEN 50 <= contacts[i].confidence /\ contacts[i].confidence <= 60
               ELSE 20 <= contacts[i].confidence /\ contacts[i].confidence <= 30

\* The rows of a profile page by method
RowsByMethod(link, method) ==
    {i \in 1..Len(contacts) : /\ contacts[i].source_url = link
                              /\ contacts[i].method = <<method>>}

IsFoundSomewhere(e) == \E j \in 1..Len(contacts) : contacts[j].email_found = e

\* C14 as claimed: in a finished run of main.py, a profile page with a found
\* address and a name has separate rows for them (email_found_profile with
\* confidence 1.0, profile_name_generated), and no CRM row carries the
\* address generated for that page.
C14_FoundPreferredAtExport ==
    pc = "done" =>
       \A link \in profile_links :
          RowsByMethod(link, "email_found_profile") # {} /\
          RowsByMethod(link, "profile_name_generated") # {} =>
             /\ \A i \in RowsByMethod(link, "email_found_profile") :
                   contacts[i].confidence = 100
             /\ \A i \in RowsByMethod(link, "profile_name_generated") :
                   \A k \in 1..Len(crm_csv.rows) :
                      crm_csv.rows[k].Email = contacts[i].email_generated =>
                         IsFoundSomewhere(crm_csv.rows[k].Email)

\* The address the claims expect for a name: first initial, cleaned last name
ExpectedGenerated(full) ==
    LET w == Words(full)
    IN SubSeq(Unidecode(Lower(w[1])), 1, 1)
          \o KeepLowerAlnum(Unidecode(Lower(w[Len(w)]))) \o AT_BERKELEY

\* C15 as claimed: once main.py has processed a list page without addresses,
\* every distinct card title of 2 to 4 words has exactly one contact, with no
\* found address, the generated address of the name, method
\* card_name_generated and confidence 0.5.
C15_OneContactPerCardTitle ==
    pc \in {"profiles", "failed"} /\ ~raw_csv.written /\ web.list.emails = << >> =>
       \A n \in 1..Len(web.list.cards) :
          2 <= WordCount(web.list.cards[n]) /\ WordCount(web.list.cards[n]) <= 4 =>
             \E i \in 1..Len(contacts) :
                /\ contacts[i].source_url = LIST_URL
                /\ contacts[i].full_name = web.list.cards[n]
                /\ contacts[i].email_found = NULL
                /\ contacts[i].email_generated = ExpectedGenerated(web.list.cards[n])
                /\ contacts[i].method = <<"card_name_generated">>
                /\ contacts[i].confidence = 50
                /\ \A j \in 1..Len(contacts) :
                      contacts[j].source_url = LIST_URL /\
                      contacts[j].full_name = web.list.cards[n] => j = i

\* ------------------------------------------------ claims on the CRM columns
Known(x) == ~IsNa(x)

\* First and last name as the claim gives them for a contact c joined with
\* the profile p
ExpectedNames(c, p) ==
    LET first == IF Known(p.first_name) THEN p.first_name ELSE c.first_name
        last  == IF Known(p.last_name) THEN p.last_name ELSE c.last_name
        full  == IF Known(p.full_name) THEN p.full_name ELSE c.full_name
    IN IF ~Known(first) /\ ~Known(last) /\ Known(full)
       THEN IF Len(Words(full)) >= 2
            THEN <<Words(full)[1], Words(full)[Len(Words(full))]>>
            ELSE <<EMPTY, EMPTY>>
       ELSE <<IF Known(first) THEN first ELSE EMPTY,
              IF Known(last) THEN last ELSE EMPTY>>

\* C16: Nombre and Apellidos of every joined row are the profile's first and
\* last name when present, else the contact's; with neither and a full name
\* (the profile's before the contact's) they are the first and last token of
\* that full name; and the rows written are joined rows.
C16_NamesFromProfileThenContact ==
    /\ \A i \in 1..Len(contacts) :
          LET p == ProfileFor(profiles, contacts[i].source_url)
              r == JoinedRows(contacts, profiles)[i]
          IN <<r.Nombre, r.Apellidos>> = ExpectedNames(contacts[i], p)
    /\ crm_csv.written =>
          \A k \in 1..Len(crm_csv.rows) :
             \E i \in 1..Len(contacts) :
                crm_csv.rows[k] = JoinedRows(contacts, profiles)[i]

\* A CRM row was written whose names are split from the profile's full name,
\* the contact having another full name and no first name
C16_Witness ==
    /\ crm_csv.written
    /\ \E i \in 1..Len(contacts), k \in 1..Len(crm_csv.rows) :
          /\ contacts[i].full_name = N_PO
          /\ contacts[i].first_name = NULL
          /\ ProfileFor(profiles, contacts[i].source_url).first_name = NULL
          /\ ProfileFor(profiles, contacts[i].source_url).full_name = N_AL_PO
          /\ crm_csv.rows[k] = JoinedRows(contacts, profiles)[i]
          /\ crm_csv.rows[k].Nombre = <<"A", "l">>
          /\ crm_csv.rows[k].Apellidos = <<"P", "o">>

\* ------------------------------------------------ claims on the functions
\* Where the tokens of s begin and end
TokenStarts(s) == {i \in 1..Len(s) : ~IsSpace(s[i]) /\ (i = 1 \/ IsSpace(s[i - 1]))}

TokenEnds(s) == {i \in 1..Len(s) : ~IsSpace(s[i]) /\ (i = Len(s) \/ IsSpace(s[i + 1]))}

Least(S) == CHOOSE x \in S : \A y \in S : x <= y

Greatest(S) == CHOOSE x \in S : \A y \in S : y <= x

FirstAndLastToken(s) ==
    <<SubSeq(s, Least(TokenStarts(s)), Least(TokenEnds(s))),
      SubSeq(s, Greatest(TokenStarts(s)), Greatest(TokenEnds(s)))>>

\* C17: both split_first_last return (None, None) for a string of fewer than
\* two tokens, the empty string included, and the first and the last token
\* otherwise, whatever lies between them.
C17_SplitFirstLast ==
    call.op \in {<<"split_first_last">>, <<"ws_split_first_last">>} =>
       IF Cardinality(TokenStarts(call.arg)) < 2
       THEN call.outcome = <<NULL, NULL>>
       ELSE call.outcome = FirstAndLastToken(call.arg)

\* A name of three tokens was split and the middle one dropped
C17_Witness ==
    /\ call.op = <<"split_first_last">>
    /\ call.arg = <<"A", " ", "o", " ", "A">>
    /\ call.outcome = << <<"A">>, <<"A">> >>

Missing(x) == x = NULL \/ x = EMPTY

\* C18 as claimed: generate_email never raises, returns None exactly when an
\* argument is missing, and otherwise the first character of the lower-cased
\* ASCII first name, the last name reduced to [a-z0-9], and "@berkeley.edu".
C18_GenerateEmailTotal ==
    call.op = <<"generate_email">> =>
       /\ call.outcome # IndexError
       /\ (call.outcome = NULL) <=> (Missing(call.arg[1]) \/ Missing(call.arg[2]))
       /\ ~(Missing(call.arg[1]) \/ Missing(call.arg[2])) =>
             call.outcome =
                SubSeq(Unidecode(Lower(Strip(call.arg[1]))), 1, 1)
                   \o KeepLowerAlnum(Unidecode(Lower(Strip(call.arg[2]))))
                   \o AT_BERKELEY

NoDuplicates(list) ==
    \A i, j \in 1..Len(list) : list[i] = list[j] => i = j

\* C19 as claimed: the addresses a locator returns are without duplicates,
\* lower-cased, and end in the domain the variant filters by: berkeley.edu
\* in main.py, uc3m.es in v4, none in v3.
C19_LocatorResult ==
    /\ call.op = <<"extract_emails_from_html">> =>
          \A e \in call.outcome : Lower(e) = e /\ EndsWith(e, AT_BERKELEY)
    /\ call.op = <<"v3_extract_emails">> =>
          /\ NoDuplicates(call.outcome)
          /\ \A i \in 1..Len(call.outcome) : Lower(call.outcome[i]) = call.outcome[i]
    /\ call.op = <<"extract_emails_from_text">> =>
          /\ NoDuplicates(call.outcome)
          /\ \A i \in 1..Len(call.outcome) :
                /\ Lower(call.outcome[i]) = call.outcome[i]
                /\ EndsWith(call.outcome[i], <<"uc3m.es">>)

WalkCalled ==
    /\ pc = "functions"
    /\ call.op \in {<<"extract_name_from_node">>, <<"extract_name_advanced">>}

\* The recursive calls of the walk at hand that were passed a node
CallsOnNodes == {i \in 2..Len(call.arg) : call.arg[i] # 0}

\* The walk passed every node from the start to the BeautifulSoup object
RootReached == \E i \in 1..Len(call.arg) : call.arg[i] = 1

AcceptsAt(n) ==
    IF call.op = <<"extract_name_from_node">>
    THEN v3_accepts(web.dom.nodes, n, web.dom.email)
    ELSE StrategiesName(web.dom, n) # NULL

\* The nodes from a node to the BeautifulSoup object, none for None
Height(n) == IF n = 0 THEN 0 ELSE Cardinality(Ancestors(web.dom.nodes, n)) + 1

\* A step of a walk returns or passes on a node nearer to the BeautifulSoup object
WalkUpDescends ==
    (Walking /\ WalkCalled) =>
        \/ call'.outcome # <<"running">>
        \/ Height(call'.arg[Len(call'.arg)]) < Height(Node)

WalkUpBounded ==
    WalkCalled =>
        /\ Len(call.arg) < MaxCalls
        /\ \A i \in 2..Len(call.arg) :
              call.arg[i] = Parent(web.dom.nodes, call.arg[i - 1])
        /\ \A i \in CallsOnNodes :
              /\ call.arg[i] \in Ancestors(web.dom.nodes, web.dom.start)
              /\ \A j \in CallsOnNodes : call.arg[i] = call.arg[j] => i = j
        /\ Cardinality(CallsOnNodes) <= Cardinality(Ancestors(web.dom.nodes, web.dom.start))
        /\ (~Walking /\ \A i \in 1..Len(call.arg) :
                          call.arg[i] # 0 => ~AcceptsAt(call.arg[i]))
              => call.outcome = NULL /\ RootReached

\* C20: on every document the walk of extract_name_from_node (v3) and
\* of extract_name_advanced (v4) ends: a call that has not returned can
\* always take its step, and every step returns or passes on the parent of the
\* node before, which has fewer nodes above it. No ancestor of the start node
\* is passed twice, and a walk that accepted no candidate returns None after
\* the BeautifulSoup object.
C20_WalkUpTerminates ==
    /\ [](Walking => WalkCalled /\ Len(call.arg) < MaxCalls)
    /\ []WalkUpBounded
    /\ [][WalkUpDescends]_vars

C20_Witness ==
    /\ WalkCalled
    /\ ~Walking
    /\ call.outcome = NULL
    /\ Cardinality(CallsOnNodes) >= 3
    /\ RootReached

AdvancedReturned ==
    /\ pc = "functions"
    /\ call.op = <<"extract_name_advanced">>
    /\ call.outcome # <<"running">>

\* The name of the parent's text, the address taken out
ParentTextName(d, n) ==
    IF Parent(d.nodes, n) = 0 THEN NULL
    ELSE normalize_name(TextWithout(d.nodes, Parent(d.nodes, n), d.email))

\* The candidates at a node in the order of the specification: the node, its
\* siblings, the parent's text, the row's cells, the list item, the container
ListedCandidates(d, n) ==
    <<NameIn(d, n), NameIn(d, previous_sibling(d.nodes, n)),
      NameIn(d, next_sibling(d.nodes, n)), ParentTextName(d, n), Strategy3(d, n),
      Strategy4(d, n), Strategy5(d, n)>>

\* The same with the parent's siblings before the parent's text
CodeCandidates(d, n) ==
    <<NameIn(d, n), NameIn(d, previous_sibling(d.nodes, n)),
      NameIn(d, next_sibling(d.nodes, n)),
      IF Parent(d.nodes, n) = 0 THEN NULL
      ELSE NameIn(d, previous_sibling(d.nodes, Parent(d.nodes, n))),
      IF Parent(d.nodes, n) = 0 THEN NULL
      ELSE NameIn(d, next_sibling(d.nodes, Parent(d.nodes, n))),
      ParentTextName(d, n), Strategy3(d, n), Strategy4(d, n), Strategy5(d, n)>>

\* The first candidate of the list that is a name, None without one
FirstOf(list) ==
    IF \A i \in 1..Len(list) : list[i] = NULL THEN NULL
    ELSE list[CHOOSE i \in 1..Len(list) :
                  list[i] # NULL /\ \A j \in 1..(i - 1) : list[j] = NULL]

\* C21 as claimed: extract_name_advanced returns the first accepted candidate
\* in the order node, previous and next sibling, parent text, cells of the
\* row, list item, last words before the address in the container, and goes
\* on to the parent only when none is accepted.
C21_ListedOrder ==
    AdvancedReturned =>
        /\ call.outcome = FirstOf(ListedCandidates(web.dom, Node))
        /\ \A i \in 1..(Len(call.arg) - 1) :
              FirstOf(ListedCandidates(web.dom, call.arg[i])) = NULL

\* C21: extract_name_advanced returns the first accepted candidate in the
\* order node, previous and next sibling, the parent's previous and next
\* sibling, parent text, cells of the row, list item, last words before the
\* address in the container, and goes on to the parent only when none of
\* them is accepted at the node.
C21_StrategyOrder ==
    AdvancedReturned =>
        /\ call.outcome = FirstOf(CodeCandidates(web.dom, Node))
        /\ \A i \in 1..(Len(call.arg) - 1) :
              FirstOf(CodeCandidates(web.dom, call.arg[i])) = NULL

\* A name of a later strategy is returned after the earlier ones found none,
\* where a strategy after it holds another name
C21_Witness ==
    /\ AdvancedReturned
    /\ call.outcome # NULL
    /\ Strategy1(web.dom, Node) = NULL
    /\ \E i \in 4..8 : \E j \in (i + 1)..9 :
          /\ CodeCandidates(web.dom, Node)[i] = call.outcome
          /\ CodeCandidates(web.dom, Node)[j] \notin {NULL, call.outcome}

\* A walk of either version has returned a name
NameReturned ==
    /\ WalkCalled
    /\ call.outcome \notin {<<"running">>, NULL}

\* C22 as claimed: a name the walk returns holds no "@", is not made of
\* digits and punctuation alone, and has 3 to 8 words in v3, 2 to 8 words
\* in v4.
C22_ReturnedNamesPassRejection ==
    NameReturned =>
        /\ \A i \in 1..Len(call.outcome) : call.outcome[i] # "@"
        /\ \E i \in 1..Len(call.outcome) : call.outcome[i] \in Letters
        /\ WordCount(call.outcome) <= 8
        /\ WordCount(call.outcome) >=
              (IF call.op = <<"extract_name_from_node">> THEN 3 ELSE 2)

\* What the profiles table holds in a field for a source URL, None without a row
StoredField(table, url, f) ==
    IF \E i \in 1..Len(table) : table[i].source_url = url
    THEN table[CHOOSE i \in 1..Len(table) : table[i].source_url = url][f]
    ELSE NULL

OneProfilePerUrl ==
    \A i, j \in 1..Len(profiles) :
        profiles[i].source_url = profiles[j].source_url => i = j

\* C23: the profiles table holds at most one row per source_url, and an
\* upsert_profile sets each field of that row to the value passed when it
\* is not null and leaves it as stored when it is null, whatever is passed
\* for the other fields; rows of other source URLs stay as they are. So a
\* field holds the value of the most recent upsert that passed one for it.
C23_ProfileFieldsMergeIndependently ==
    /\ []OneProfilePerUrl
    /\ [][CalledUpsertProfile' =>
            /\ \E i \in 1..Len(profiles') :
                  profiles'[i].source_url = call'.arg.source_url
            /\ \A u \in URLS : \A f \in ProfileFields :
                  StoredField(profiles', u, f) =
                     IF u = call'.arg.source_url /\ call'.arg[f] # NULL
                     THEN call'.arg[f]
                     ELSE StoredField(profiles, u, f)]_vars

\* A row holds the full name of the call before last and the first name of
\* the last call, which passed no full name; another full name was stored first
C23_Witness ==
    /\ CalledUpsertProfile
    /\ Len(profiles) = 2
    /\ call.arg.full_name = NULL
    /\ call.arg.first_name # NULL
    /\ call.arg.department = NULL
    /\ StoredField(profiles, call.arg.source_url, "full_name") = N_PO
    /\ StoredField(profiles, call.arg.source_url, "first_name") = call.arg.first_name
    /\ StoredField(profiles, call.arg.source_url, "department") = PHYSICS

\* The pieces of a URL that EXCLUDE_URL_PATTERNS match
ExcludedPieces == {".pdf", ".jpg", ".zip", "/news", "/login", "/events"}

C25_ControlledBfs ==
    /\ pages <= MaxPages
    /\ pages <= Len(requested)
    /\ \A i \in 1..Len(requested) : requested[i][2] <= MaxDepth
    /\ \A i, j \in 1..Len(requested) :
          requested[i][1] = requested[j][1] => i = j

\* The crawl is over; two requests failed, and the links to the pages seen
\* before were passed over
C25_Witness ==
    /\ pc = "crawl_done"
    /\ queue = << >>
    /\ Len(requested) = 3
    /\ pages = 1
    /\ \E i \in 1..3 : requested[i][2] = MaxDepth

\* One more than the links of the page with most links
LinksBound == Len(CrawlPage(LIST_URL).links) + 1

\* What is left of a crawl: the pages it may still process and the pairs in
\* its queue
CrawlLeft == (MaxPages - pages) * LinksBound + Len(queue)

\* C26 as claimed: every turn of the loop of web_scrapping.crawl leaves less
\* to do, so the crawl ends, whatever the links and the answers; and a
\* crawl that has ended has written the CSV.
C26_CrawlTerminatesAndExports ==
    /\ [][(pc = "crawl" /\ pc' = "crawl") => CrawlLeft' < CrawlLeft]_vars
    /\ [](pc \in {"crawl_done", "crawl_failed"} => raw_csv.written)

\* ------------------------------------------------- claims on the uc3m v4 run
\* The tuples emitted so far: those of main and those of the call at hand
Emitted == datos_finales \o resultados

EmittedEmails == {Emitted[i][3] : i \in 1..Len(Emitted)}

IsPrefix(a, b) == Len(a) <= Len(b) /\ SubSeq(b, 1, Len(a)) = a

\* C27: with one seen_emails set shared by all departments, no address is in
\* more than one emitted tuple, every emitted address is in seen_emails, the
\* tuple of an address (and so its name) is the one of its first observation
\* and is never changed afterwards, and the final pass of main removes nothing.
C27_SharedSeenEmails ==
    /\ [](\A i, j \in 1..Len(Emitted) : Emitted[i][3] = Emitted[j][3] => i = j)
    /\ [](EmittedEmails \subseteq seen_emails_global)
    /\ [](pc = "v4_done" => datos_unicos = datos_finales)
    /\ [][/\ IsPrefix(Emitted, Emitted')
          /\ \A i \in (Len(Emitted) + 1)..Len(Emitted') :
                Emitted'[i][3] \notin seen_emails_global]_vars

\* Tuples of two departments have been emitted under the one seen_emails set
\* and the final pass of main has run
C27_Witness ==
    /\ pc = "v4_done"
    /\ idx = 2
    /\ Len(datos_unicos) >= 2
    /\ \E i, j \in 1..Len(datos_unicos) : datos_unicos[i][1] # datos_unicos[j][1]

\* -------------------------------------- claims on the addresses of a contact
NameOnly == {<<"name_only">>}

\* C28: every stored contact has exactly one of email_found and
\* email_generated: a contact of a found address carries no name and no
\* generated address, a contact of a name carries a generated address, and
\* no contact is stored by the name-only branch (method name_only, confidence
\* 0.2, 0.25 or 0.3).
C28_OneAddressPerContact ==
    \A i \in 1..Len(contacts) :
       LET c == contacts[i]
       IN /\ (c.email_found # NULL) # (c.email_generated # NULL)
          /\ c.email_found # NULL =>
                /\ c.full_name = NULL /\ c.first_name = NULL /\ c.last_name = NULL
                /\ c.email_generated = NULL
          /\ c.email_found = NULL =>
                /\ Truthy(c.full_name) /\ Truthy(c.first_name) /\ Truthy(c.last_name)
                /\ Truthy(c.email_generated)
          /\ c.method \notin NameOnly
          /\ c.confidence \notin {20, 25, 30}

\* A run has stored a contact of a found address and a contact of a name
C28_Witness ==
    /\ pc \in {"done", "crawl_done"}
    /\ \E i, j \in 1..Len(contacts) :
          /\ contacts[i].email_found # NULL
          /\ contacts[j].email_generated # NULL

\* ------------------------------------------ claims on the profiles of visits
\* C29: after any sequence of profile-page visits on one database every
\* stored profile is self-consistent: its first_name and last_name are
\* split_first_last of its stored full_name, and a non-empty stored full_name
\* is never replaced by the empty string.
C29_ProfileSelfConsistent ==
    /\ [](\A i \in 1..Len(profiles) :
             <<profiles[i].first_name, profiles[i].last_name>>
                = split_first_last(profiles[i].full_name))
    /\ [][\A i \in 1..Len(profiles) :
             Truthy(profiles[i].full_name) =>
                \A j \in 1..Len(profiles') :
                   profiles'[j].source_url = profiles[i].source_url =>
                      profiles'[j].full_name # EMPTY]_vars

\* ------------------------------------------------ claims on the v1 fetch loop
FetchCall == call.op = <<"fetch">>

Succeeded(answer) == answer.raised = "none" /\ answer.status < 400

\* C30: fetch makes at most max_retries + 1 requests for a URL; a response
\* it returns is that of the first request that succeeded, and no request
\* follows it; it returns None only after max_retries + 1 requests, all of
\* which failed.
C30_FetchRetriesBounded ==
    /\ [](FetchCall => Len(call.arg.requests) <= call.arg.max_retries + 1)
    /\ [](FetchCall /\ call.outcome[1] = "response" =>
             LET n == Len(call.arg.requests)
             IN /\ n >= 1
                /\ call.outcome = Response(call.arg.requests[n])
                /\ Succeeded(call.arg.requests[n])
                /\ \A i \in 1..(n - 1) : ~Succeeded(call.arg.requests[i]))
    /\ [](FetchCall /\ call.outcome = NULL =>
             /\ Len(call.arg.requests) = call.arg.max_retries + 1
             /\ \A i \in 1..Len(call.arg.requests) : RequestFailed(call.arg.requests[i]))
    /\ [][FetchCall /\ call.outcome # <<"running">> =>
             call'.arg.requests = call.arg.requests]_vars

\* A response was returned after a request that failed
C30_Witness ==
    /\ FetchCall
    /\ call.outcome[1] = "response"
    /\ Len(call.arg.requests) >= 2

====
